---------------------------- MODULE Spec2Model ----------------------------
(***************************************************************************)
(* A model of splay: the voice pool of one MIDI channel (signal_envelope,  *)
(* simple_midi_channel::voice, simple_midi_channel), the track decoder     *)
(* (midi::track) and the tick loop that drives it.                         *)
(*                                                                         *)
(* Levels are floats in the program.  Here a level is an integer count of  *)
(* 1/LevelScale units and a multiplier is a fraction <<num, den>>; a       *)
(* product is rounded down to a whole unit.  The three level parameters    *)
(* (1/32767, 0.0001, 0.9) are whole numbers of units.                      *)
(***************************************************************************)
EXTENDS Integers, Sequences, FiniteSets, TLC

VARIABLES
    voices,      \* simple_midi_channel::voices, a sequence of voice records
    held,        \* history: keys with a note_on (velocity > 0) and no note_off since
    stole,       \* history: has note_on had to take a voice that was not Idle
    overfull,    \* history: has Cardinality(held) ever exceeded the pool size
    offByZero,   \* history: has a note_on with velocity 0 released a sounding voice
    now,         \* samples rendered so far
    env,         \* one signal_envelope driven on its own
    envPrev,     \* history: that envelope before its last operation
    envOp,       \* history: its last operation
    envSteps,    \* sample steps that envelope has taken
    ndebug,      \* is the build one with NDEBUG (assert compiled out)
    tracks,      \* player::impl's tracks_, a sequence of track records
    vlq,         \* what get_var_num returned when called on its own
    script,      \* the events each track's bytes were written from
    division,    \* the division (tick) the player's loop is at
    dispatched,  \* every call made on the visitor so far, in order
    failure,     \* "none", or how the player's loop was left
    midi_divisions,              \* the header's ticks per quarter note
    microsecondsPerQuarterNote,  \* the tempo
    microsecondsToNextTick,      \* time left until the next tick is due
    elapsed,     \* microseconds given to advance so far
    advances,    \* calls of advance so far
    registered,  \* the sink set_channel registered for each channel, 0 for none
    delivered,   \* every call made on a registered sink so far, in order
    queue_,      \* job_queue::impl::queue_, the jobs waiting
    mutex_,      \* job_queue::impl::mutex_: the thread that holds it, or "free"
    pushPc,      \* where each pushing thread is in push, with the job it pushes
    execPc,      \* where the executing thread is in execute_all
    j_,          \* execute_all's local j, 0 when empty
    pushed,      \* history: the jobs in the order they entered queue_
    started,     \* history: the jobs in the order they were started
    running,     \* history: the jobs started and not yet returned
    audioPc,     \* where the thread of wavedev (double_buffer_thread) is
    frame,       \* do_mix's i: the frames of the block rendered so far
    drains,      \* history: calls of execute_all in this callback invocation
    engine,      \* history: who is inside the voice engine, and what for
    exiting_,    \* wavedev::impl::exiting_
    num_buffers_to_play_,  \* wavedev::impl::num_buffers_to_play_
    next_buffer_,          \* wavedev::impl::next_buffer_
    playing,     \* buffers written to the device and not yet done
    data_mutex,  \* main's data_mutex: the thread that holds it, or "free"
    mainPc,      \* where the main (UI) thread is
    lateBegins,  \* history: callback invocations begun with exiting_ set
    destroyed,   \* history: the objects of main destroyed so far, in order
    file,        \* the bytes of the stream handed to player::impl::impl
    made,        \* history: how the file was made (header fields, tracks, cut)
    in_,         \* the stream in: bytes read so far and its fail state
    garbage,     \* the bytes found in an array that in.read did not fill
    loadPc,      \* where player::impl::impl is
    midi_header, \* midi_format, midi_tracks and midi_divisions once read
    track_number,\* track_number of the loop that reads the tracks
    padded,      \* history: bytes of the tracks read that are not in the file
    what,        \* what() of the exception the loader itself threw, "" when none
    volume_target,  \* target_ of simple_midi_channel::volume_, in units of 1/254
    pan_target,     \* target_ of panning_device::pan_, in units of 1/254
    ctlFailure,     \* "abort" once an assert of the channel has failed
    ctlLast,        \* history: the last call of controller_change, the targets before
    envKeys,        \* key_on and key_off calls made on the envelope that is always rendered
    vox,            \* one voice with its oscillator and its filter
    voxPrev,        \* history: the voice before the last operation
    voxOp,          \* history: the last operation on the voice
    voxOut,         \* what the last operator() returned
    voxSteps,       \* samples rendered by the voice
    mix,            \* volume_ and pan_ of a channel, and the samples it has rendered
    mixPrev,        \* history: mix before the last operation
    mixOp,          \* history: the last operation on the channel
    buffer,         \* double_buffer_thread's local buffer, -1 outside the loop body
    queued,         \* the buffers written to the device and not yet done, in order
    resetLeft,      \* the buffers waveOutReset has yet to report as done
    callers,        \* history: the threads that are inside callback_
    waveFailure     \* "abort" once an assert of wavedev::impl has failed

poolVars == <<voices, held, stole, overfull, offByZero, now>>

envVars == <<env, envPrev, envOp, envSteps>>

vlqVars == <<ndebug, tracks, vlq>>

playVars == <<script, division, dispatched, failure>>

clockVars == <<midi_divisions, microsecondsPerQuarterNote, microsecondsToNextTick,
               elapsed, advances>>

sinkVars == <<registered, delivered>>

jobVars == <<queue_, mutex_, pushPc, execPc, j_, pushed, started, running>>

audioVars == <<audioPc, frame, drains, engine, exiting_, num_buffers_to_play_,
               next_buffer_, playing, data_mutex, mainPc, lateBegins, destroyed>>

loadVars == <<file, made, in_, garbage, loadPc, midi_header, track_number, padded, what>>

ctlVars == <<volume_target, pan_target, ctlFailure, ctlLast>>

voxVars == <<vox, voxPrev, voxOp, voxOut, voxSteps>>

mixVars == <<mix, mixPrev, mixOp>>

waveVars == <<buffer, queued, resetLeft, callers, waveFailure>>

moreVars == <<ctlVars, envKeys, voxVars, mixVars, waveVars>>

restVars == <<jobVars, audioVars, loadVars, moreVars>>

vars == <<poolVars, envVars, vlqVars, playVars, clockVars, sinkVars, restVars>>

-----------------------------------------------------------------------------
(* Bounds of the model. *)

\* Largest pool the model builds; the program's max_polyphony is 32.
MaxPolyphony == 2

\* Samples per second in the model; the program's samplerate is 44100.  The
\* envelope formulas are the program's, evaluated at this rate, which keeps
\* an envelope phase a few samples long.
samplerate == 12

\* Number of samples the model renders.
MaxSamples == 2

\* Number of sample steps the envelope driven on its own takes.
MaxEnvSteps == 14

\* key_on and key_off calls on the envelope that is always rendered.
MaxKeyOps == 5

\* Samples rendered by the channel whose volume and pan are looked at.
MaxRampSteps == 4

\* The sample rate the slides of volume_ and pan_ are computed for.
RampRate == 1500

\* Samples rendered by the voice that is looked at alone.
MaxVoxSteps == 5

\* Longest byte string get_var_num is given on its own.
MaxVlqLen == 4

\* Most events a track of the decoded file is written from.
MaxEvents == 3

\* Divisions the player's loop is followed for.
MaxDivisions == 48

\* Calls of advance that are followed.
MaxAdvances == 5

\* Most ticks one call of advance is followed through.
MaxTicksPerAdvance == 8

\* Jobs that are pushed to the job queue.
MaxJobs == 3

\* Stereo frames of one block of the audio device (4096 in wavedev).
FramesPerBlock == 2

-----------------------------------------------------------------------------
(* note.h *)

piano_key_OFF == 0

piano_key_A_0 == 1

piano_key_A_4 == 49

piano_key_AS4 == 50

piano_key_B_4 == 51

piano_key_C_8 == 88

piano_key_valid(n) == n >= piano_key_A_0 /\ n <= piano_key_C_8

\* The keys the model plays.
Keys == { piano_key_A_4, piano_key_AS4, piano_key_B_4 }

Velocities == {0, 64}

-----------------------------------------------------------------------------
(* signal_envelope *)

\* Units per 1.0: the least number that makes min_level, sustain_level and
\* peak_level whole (32767 * 10000).
LevelScale == 327670000

min_level == LevelScale \div 32767

peak_level == (LevelScale \div 10) * 9

sustain_level == LevelScale \div 10000

\* Times in tenths of a second (0.2, 0.8, 0.1).
attack_time == 2

decay_time == 8

release_time == 1

\* log(level) in thousandths, for the three levels set_multiplier is given.
LogMilli(level) ==
    CASE level = min_level     -> -10397
      [] level = sustain_level -> -9210
      [] level = peak_level    -> -105

\* 1 + (log(end) - log(start)) / (length * samplerate), as <<num, den>>;
\* length is in tenths of a second.
calc_exp_multiplier(start_level, end_level, length) ==
    LET den == 100 * length * samplerate
    IN  << den + (LogMilli(end_level) - LogMilli(start_level)), den >>

\* level * multiplier rounded down, computed without leaving 32 bits:
\* level = q * den + r gives level * num / den = q * num + r * num / den.
Mul(level, m) ==
    (level \div m[2]) * m[1] + ((level % m[2]) * m[1]) \div m[2]

\* The envelope as constructed.
EnvelopeInit ==
    [ state |-> "state_off", level |-> min_level, multiplier |-> <<0, 1>> ]

\* set_multiplier's assertions: all three parameters are positive constants;
\* the one that reads state is level >= min_level.
set_multiplier_ok(e) == e.level >= min_level

set_multiplier(e, start_level, end_level, length) ==
    [ e EXCEPT !.multiplier = calc_exp_multiplier(start_level, end_level, length) ]

envelope_key_on(e) ==
    set_multiplier([ e EXCEPT !.state = "state_attack" ],
                   min_level, peak_level, attack_time)

is_off(e) == e.state = "state_off"

\* key_off without the is_off test.
envelope_key_off_unguarded(e) ==
    set_multiplier([ e EXCEPT !.state = "state_release" ],
                   sustain_level, min_level, release_time)

envelope_key_off(e) ==
    IF ~is_off(e)
    THEN set_multiplier([ e EXCEPT !.state = "state_release" ],
                        sustain_level, min_level, release_time)
    ELSE e

\* operator() whose release case stops at the floor without going off.
envelope_step_stays_released(e) ==
    CASE e.state = "state_attack" ->
            LET l == Mul(e.level, e.multiplier)
            IN  IF l >= peak_level
                THEN set_multiplier([ e EXCEPT !.state = "state_decay",
                                               !.level = peak_level ],
                                    peak_level, sustain_level, decay_time)
                ELSE [ e EXCEPT !.level = l ]
      [] e.state = "state_decay" ->
            LET l == Mul(e.level, e.multiplier)
            IN  IF l <= sustain_level
                THEN [ e EXCEPT !.state = "state_sustain", !.level = sustain_level ]
                ELSE [ e EXCEPT !.level = l ]
      [] e.state = "state_sustain" ->
            [ e EXCEPT !.level = sustain_level ]
      [] e.state = "state_release" ->
            LET l == Mul(e.level, e.multiplier)
            IN  [ e EXCEPT !.level = IF l <= min_level THEN min_level ELSE l ]
      [] e.state = "state_off" ->
            [ e EXCEPT !.level = min_level ]

\* operator() whose attack case goes on to the decay with the level it has
\* reached.
envelope_step_overshoots(e) ==
    CASE e.state = "state_attack" ->
            LET l == Mul(e.level, e.multiplier)
            IN  IF l >= peak_level
                THEN set_multiplier([ e EXCEPT !.state = "state_decay", !.level = l ],
                                    peak_level, sustain_level, decay_time)
                ELSE [ e EXCEPT !.level = l ]
      [] e.state = "state_decay" ->
            LET l == Mul(e.level, e.multiplier)
            IN  IF l <= sustain_level
                THEN [ e EXCEPT !.state = "state_sustain", !.level = sustain_level ]
                ELSE [ e EXCEPT !.level = l ]
      [] e.state = "state_sustain" ->
            [ e EXCEPT !.level = sustain_level ]
      [] e.state = "state_release" ->
            LET l == Mul(e.level, e.multiplier)
            IN  IF l <= min_level
                THEN [ e EXCEPT !.state = "state_off", !.level = min_level ]
                ELSE [ e EXCEPT !.level = l ]
      [] e.state = "state_off" ->
            [ e EXCEPT !.level = min_level ]

\* operator() whose decay case goes on to the sustain without a look at the
\* level.
envelope_step_decay_once(e) ==
    CASE e.state = "state_attack" ->
            LET l == Mul(e.level, e.multiplier)
            IN  IF l >= peak_level
                THEN set_multiplier([ e EXCEPT !.state = "state_decay",
                                               !.level = peak_level ],
                                    peak_level, sustain_level, decay_time)
                ELSE [ e EXCEPT !.level = l ]
      [] e.state = "state_decay" ->
            [ e EXCEPT !.state = "state_sustain", !.level = Mul(e.level, e.multiplier) ]
      [] e.state = "state_sustain" ->
            [ e EXCEPT !.level = sustain_level ]
      [] e.state = "state_release" ->
            LET l == Mul(e.level, e.multiplier)
            IN  IF l <= min_level
                THEN [ e EXCEPT !.state = "state_off", !.level = min_level ]
                ELSE [ e EXCEPT !.level = l ]
      [] e.state = "state_off" ->
            [ e EXCEPT !.level = min_level ]

\* signal_envelope::operator(): one sample step of the envelope.
envelope_step(e) ==
    CASE e.state = "state_attack" ->
            LET l == Mul(e.level, e.multiplier)
            IN  IF l >= peak_level
                THEN set_multiplier([ e EXCEPT !.state = "state_decay",
                                               !.level = peak_level ],
                                    peak_level, sustain_level, decay_time)
                ELSE [ e EXCEPT !.level = l ]
      [] e.state = "state_decay" ->
            LET l == Mul(e.level, e.multiplier)
            IN  IF l <= sustain_level
                THEN [ e EXCEPT !.state = "state_sustain", !.level = sustain_level ]
                ELSE [ e EXCEPT !.level = l ]
      [] e.state = "state_sustain" ->
            [ e EXCEPT !.level = sustain_level ]
      [] e.state = "state_release" ->
            LET l == Mul(e.level, e.multiplier)
            IN  IF l <= min_level
                THEN [ e EXCEPT !.state = "state_off", !.level = min_level ]
                ELSE [ e EXCEPT !.level = l ]
      [] e.state = "state_off" ->
            [ e EXCEPT !.level = min_level ]

-----------------------------------------------------------------------------
(* simple_midi_channel::voice *)

VoiceInit ==
    [ key_ |-> piano_key_OFF, vel_ |-> 0, samples_played_ |-> 0,
      envelope_ |-> EnvelopeInit ]

\* key_on that forgets to bind the key.
voice_key_on_no_key(v, key, vel) ==
    [ v EXCEPT !.vel_ = vel, !.samples_played_ = 0,
               !.envelope_ = envelope_key_on(v.envelope_) ]

\* key_on that forgets to restart the sample counter.
voice_key_on_keeps_count(v, key, vel) ==
    [ v EXCEPT !.key_ = key, !.vel_ = vel,
               !.envelope_ = envelope_key_on(v.envelope_) ]

voice_key_on(v, key, vel) ==
    [ v EXCEPT !.key_ = key, !.vel_ = vel, !.samples_played_ = 0,
               !.envelope_ = envelope_key_on(v.envelope_) ]

voice_key_off(v) == [ v EXCEPT !.envelope_ = envelope_key_off(v.envelope_) ]

active(v) == v.key_ # piano_key_OFF /\ ~is_off(v.envelope_)

\* voice::operator(): one sample of one voice.
voice_step(v) ==
    LET w == [ v EXCEPT !.samples_played_ = v.samples_played_ + 1 ]
    IN  IF ~active(w) THEN w
        ELSE [ w EXCEPT !.envelope_ = envelope_step(w.envelope_) ]

compare_samples_played(l, r) == l.samples_played_ < r.samples_played_

-----------------------------------------------------------------------------
(* simple_midi_channel *)

\* find_key that only looks at sounding voices.
find_key_active_only(vs, key) ==
    IF \E i \in 1..Len(vs) : vs[i].key_ = key /\ active(vs[i])
    THEN CHOOSE i \in 1..Len(vs) :
            /\ vs[i].key_ = key /\ active(vs[i])
            /\ \A j \in 1..(i - 1) : ~(vs[j].key_ = key /\ active(vs[j]))
    ELSE 0

\* find_key: the first voice whose key_ is key, 0 for nullptr.
find_key(vs, key) ==
    IF \E i \in 1..Len(vs) : vs[i].key_ = key
    THEN CHOOSE i \in 1..Len(vs) :
            /\ vs[i].key_ = key
            /\ \A j \in 1..(i - 1) : vs[j].key_ # key
    ELSE 0

\* std::find_if(..., !active): the first voice that is not active, 0 for end.
find_inactive(vs) ==
    IF \E i \in 1..Len(vs) : ~active(vs[i])
    THEN CHOOSE i \in 1..Len(vs) :
            /\ ~active(vs[i])
            /\ \A j \in 1..(i - 1) : active(vs[j])
    ELSE 0

\* max_element that keeps the last of the greatest voices.
max_element_last(vs) ==
    CHOOSE i \in 1..Len(vs) :
        /\ \A j \in 1..Len(vs) : ~compare_samples_played(vs[i], vs[j])
        /\ \A j \in (i + 1)..Len(vs) : compare_samples_played(vs[j], vs[i])

\* std::max_element with compare_samples_played: the first voice no other
\* voice compares greater than.
max_element(vs) ==
    CHOOSE i \in 1..Len(vs) :
        /\ \A j \in 1..Len(vs) : ~compare_samples_played(vs[i], vs[j])
        /\ \A j \in 1..(i - 1) : compare_samples_played(vs[j], vs[i])

note_off(vs, key) ==
    LET v == find_key(vs, key)
    IN  IF v # 0 THEN [ vs EXCEPT ![v] = voice_key_off(vs[v]) ] ELSE vs

\* The voice note_on(key, vel) with vel > 0 calls key_on on.
note_on_voice(vs, key) ==
    LET v == find_key(vs, key)
    IN  IF v # 0 THEN v
        ELSE LET it == find_inactive(vs)
             IN  IF it # 0 THEN it ELSE max_element(vs)

\* Does note_on(key, vel) reach the "can't find an empty channel" branch.
note_on_steals(vs, key, vel) ==
    vel # 0 /\ find_key(vs, key) = 0 /\ find_inactive(vs) = 0

\* note_on without the velocity-0 test.
note_on_no_zero_test(vs, key, vel) ==
    LET v == note_on_voice(vs, key)
    IN  [ vs EXCEPT ![v] = voice_key_on(vs[v], key, vel) ]

note_on(vs, key, vel) ==
    IF vel = 0 THEN note_off(vs, key)
    ELSE LET v == note_on_voice(vs, key)
         IN  [ vs EXCEPT ![v] = voice_key_on(vs[v], key, vel) ]

\* simple_midi_channel::operator(): one sample of every voice, in pool order.
channel_step(vs) == [ i \in 1..Len(vs) |-> voice_step(vs[i]) ]

-----------------------------------------------------------------------------
(* The channel driven by note_on, note_off and per-sample rendering. *)

HeldAfterOn(key, vel) == IF vel = 0 THEN held \ {key} ELSE held \cup {key}

PoolStart ==
    /\ \E n \in 1..MaxPolyphony : voices = [ i \in 1..n |-> VoiceInit ]
    /\ held = {}
    /\ stole = FALSE
    /\ overfull = FALSE
    /\ offByZero = FALSE
    /\ now = 0

NoteOn(key, vel) ==
    /\ voices' = note_on(voices, key, vel)
    /\ held' = HeldAfterOn(key, vel)
    /\ stole' = (stole \/ note_on_steals(voices, key, vel))
    /\ overfull' = (overfull \/ Cardinality(HeldAfterOn(key, vel)) > Len(voices))
    /\ offByZero' = (offByZero \/ (vel = 0 /\ find_key(voices, key) # 0
                                     /\ active(voices[find_key(voices, key)])))
    /\ UNCHANGED now

NoteOff(key) ==
    /\ voices' = note_off(voices, key)
    /\ held' = held \ {key}
    /\ UNCHANGED <<stole, overfull, offByZero, now>>

Render ==
    /\ now < MaxSamples
    /\ voices' = channel_step(voices)
    /\ now' = now + 1
    /\ UNCHANGED <<held, stole, overfull, offByZero>>

\* No pool: the state of the pool variables where the pool is not driven.
PoolParked ==
    /\ voices = <<>>
    /\ held = {}
    /\ stole = FALSE
    /\ overfull = FALSE
    /\ offByZero = FALSE
    /\ now = 0

-----------------------------------------------------------------------------
(* One envelope driven by key_on, key_off and sample steps. *)

EnvStart ==
    /\ env = EnvelopeInit
    /\ envPrev = EnvelopeInit
    /\ envOp = "none"
    /\ envSteps = 0

EnvParked == EnvStart

EnvKeyOn ==
    /\ env' = envelope_key_on(env)
    /\ envPrev' = env
    /\ envOp' = "key_on"
    /\ UNCHANGED envSteps

EnvKeyOff ==
    /\ env' = envelope_key_off(env)
    /\ envPrev' = env
    /\ envOp' = "key_off"
    /\ UNCHANGED envSteps

EnvStep ==
    /\ envSteps < MaxEnvSteps
    /\ env' = envelope_step(env)
    /\ envPrev' = env
    /\ envOp' = "step"
    /\ envSteps' = envSteps + 1

\* The envelope of a voice that is rendered for as long as the program
\* runs: the calls of key_on and key_off are counted, the sample steps are
\* not.
LiveOthers ==
    <<poolVars, vlqVars, playVars, clockVars, sinkVars, jobVars, audioVars, loadVars,
      ctlVars, voxVars, mixVars, waveVars, envSteps>>

LiveKeyOn ==
    /\ envKeys < MaxKeyOps
    /\ env' = envelope_key_on(env)
    /\ envPrev' = env
    /\ envOp' = "key_on"
    /\ envKeys' = envKeys + 1
    /\ UNCHANGED LiveOthers

LiveKeyOff ==
    /\ envKeys < MaxKeyOps
    /\ env' = envelope_key_off(env)
    /\ envPrev' = env
    /\ envOp' = "key_off"
    /\ envKeys' = envKeys + 1
    /\ UNCHANGED LiveOthers

LiveStep ==
    /\ env' = envelope_step(env)
    /\ envPrev' = env
    /\ envOp' = "step"
    /\ UNCHANGED <<envKeys, LiveOthers>>

-----------------------------------------------------------------------------
(* midi::track: the cursor over one track's bytes.  pos_ counts the bytes  *)
(* consumed, so the next byte is data_[pos_ + 1] here.  An operation ends  *)
(* "ok", "throw" (an exception leaves it) or "abort" (an assert failed in  *)
(* a build without NDEBUG).                                                *)

TrackInit(n, data) ==
    [ n_ |-> n, data_ |-> data, pos_ |-> 0, last_message_ |-> 0, count_down_ |-> -1 ]

available(t, amm) == t.pos_ + amm <= Len(t.data_)

\* check_available when it fails: assert(false), then the throw.
EndOfTrack == IF ndebug THEN "throw" ELSE "abort"

done(t) == t.pos_ >= Len(t.data_)

\* get_var_num whose loop stops after 3 bytes.
RECURSIVE get_var_num_3_bytes(_, _, _)
get_var_num_3_bytes(t, result, n) ==
    IF n = 3 THEN [ st |-> "ok", val |-> result, t |-> t ]
    ELSE IF ~available(t, 1) THEN [ st |-> EndOfTrack, val |-> result, t |-> t ]
    ELSE LET ch == t.data_[t.pos_ + 1]
             r  == result * 128 + (ch % 128)
             u  == [ t EXCEPT !.pos_ = t.pos_ + 1 ]
         IN  IF ch < 128 THEN [ st |-> "ok", val |-> r, t |-> u ]
             ELSE get_var_num_3_bytes(u, r, n + 1)

\* The loop of get_var_num from round n on: get_u8, result <<= 7,
\* result |= ch & 0x7f, break when the top bit is clear, assert(n != 3).
\* Four groups of 7 bits fit in the 32 bits of result.
RECURSIVE get_var_num_loop(_, _, _)
get_var_num_loop(t, result, n) ==
    IF n = 4 THEN [ st |-> "ok", val |-> result, t |-> t ]
    ELSE IF ~available(t, 1) THEN [ st |-> EndOfTrack, val |-> result, t |-> t ]
    ELSE LET ch == t.data_[t.pos_ + 1]
             r  == result * 128 + (ch % 128)
             u  == [ t EXCEPT !.pos_ = t.pos_ + 1 ]
         IN  IF ch < 128 THEN [ st |-> "ok", val |-> r, t |-> u ]
             ELSE IF n = 3 /\ ~ndebug THEN [ st |-> "abort", val |-> r, t |-> u ]
             ELSE get_var_num_loop(u, r, n + 1)

get_var_num_short(t) == get_var_num_3_bytes(t, 0, 0)

get_var_num(t) == get_var_num_loop(t, 0, 0)

get_u8(t) ==
    IF ~available(t, 1) THEN [ st |-> EndOfTrack, val |-> 0, t |-> t ]
    ELSE [ st |-> "ok", val |-> t.data_[t.pos_ + 1], t |-> [ t EXCEPT !.pos_ = t.pos_ + 1 ] ]

\* An assert whose condition is false stops a build without NDEBUG.
AssertFails(cond) == ~cond /\ ~ndebug

\* What an operation on a track gives back: the track, the visitor calls so
\* far and how it ended.
Result(t, out, st) == [ t |-> t, out |-> out, st |-> st ]

\* One call on the visitor (print_dev carries the division and the track).
Event(d, t, kind, channel, key, data, value) ==
    [ division |-> d, track |-> t.n_, kind |-> kind, channel |-> channel,
      key |-> key, data |-> data, value |-> value ]

\* piano_key::A_4 + (key - midi_a4), cast to the enum's unsigned char.
midi_a4 == 69

pkey(key) == (piano_key_A_4 + (key - midi_a4)) % 256

\* The channel taken from no bit of the status.
channel_of_none(last_message) == 0

\* const uint8_t channel = last_message_ & 0xf.
channel_of(last_message) == last_message % 16

\* case 0x8, 0x9, 0xA of next_division's switch.
key_message(t, out, d) ==
    LET k  == get_u8(t)
        v  == get_u8(k.t)
        hi == t.last_message_ \div 16
        kind == CASE hi = 8 -> "note_off" [] hi = 9 -> "note_on"
                  [] OTHER -> "polyphonic_key_pressure"
    IN  IF k.st # "ok" THEN Result(k.t, out, k.st)
        ELSE IF v.st # "ok" THEN Result(v.t, out, v.st)
        ELSE IF \/ AssertFails(k.val < 128) \/ AssertFails(v.val < 128)
                \/ AssertFails(piano_key_valid(pkey(k.val)))
             THEN Result(v.t, out, "abort")
        ELSE Result(v.t, Append(out, Event(d, t, kind, channel_of(t.last_message_),
                                           pkey(k.val), <<k.val, v.val>>, 0)), "ok")

\* case 0xB, with print_dev::do_controller_change.
controller_message(t, out, d) ==
    LET c == get_u8(t)
        v == get_u8(c.t)
        kind == CASE c.val < 120 -> "controller_change"
                  [] c.val = 120 -> "all_sound_off"
                  [] c.val = 121 -> "reset_all_controllers"
                  [] OTHER -> "unsupported_controller_change"
    IN  IF c.st # "ok" THEN Result(c.t, out, c.st)
        ELSE IF v.st # "ok" THEN Result(v.t, out, v.st)
        ELSE IF \/ AssertFails(c.val < 128) \/ AssertFails(v.val < 128)
                \/ AssertFails(c.val <= 121)
             THEN Result(v.t, out, "abort")
        ELSE Result(v.t, Append(out, Event(d, t, kind, channel_of(t.last_message_),
                                           0, <<c.val, v.val>>, 0)), "ok")

\* case 0xC.
program_message(t, out, d) ==
    LET p == get_u8(t)
    IN  IF p.st # "ok" THEN Result(p.t, out, p.st)
        ELSE IF AssertFails(p.val < 128) THEN Result(p.t, out, "abort")
        ELSE Result(p.t, Append(out, Event(d, t, "program_change", channel_of(t.last_message_),
                                           0, <<p.val>>, 0)), "ok")

\* The channel message branch with a status byte always taken from the
\* track.
channel_message_no_running(t, command_byte, out, d) ==
    LET t1 == [ t EXCEPT !.last_message_ = command_byte, !.pos_ = t.pos_ + 1 ]
        hi == t1.last_message_ \div 16
    IN  IF AssertFails(t1.last_message_ >= 128 /\ t1.last_message_ <= 224)
        THEN Result(t1, out, "abort")
        ELSE CASE hi \in { 8, 9, 10 } -> key_message(t1, out, d)
               [] hi = 11 -> controller_message(t1, out, d)
               [] hi = 12 -> program_message(t1, out, d)
               [] OTHER -> IF ~ndebug THEN Result(t1, out, "abort")
                           ELSE Result(t1, Append(out, Event(d, t1, "unhandled_midi_message",
                                                             channel_of(t1.last_message_), 0, <<>>, 0)), "ok")

\* The channel message branch of next_division: a byte with the top bit set
\* becomes last_message_ and is consumed, any other leaves last_message_.
channel_message(t, command_byte, out, d) ==
    LET t1 == IF command_byte >= 128
              THEN [ t EXCEPT !.last_message_ = command_byte, !.pos_ = t.pos_ + 1 ]
              ELSE t
        hi == t1.last_message_ \div 16
    IN  IF AssertFails(t1.last_message_ >= 128 /\ t1.last_message_ <= 224)
        THEN Result(t1, out, "abort")
        ELSE CASE hi \in { 8, 9, 10 } -> key_message(t1, out, d)
               [] hi = 11 -> controller_message(t1, out, d)
               [] hi = 12 -> program_message(t1, out, d)
               [] OTHER -> IF ~ndebug THEN Result(t1, out, "abort")
                           ELSE Result(t1, Append(out, Event(d, t1, "unhandled_midi_message",
                                                             channel_of(t1.last_message_), 0, <<>>, 0)), "ok")

\* do_meta_event that takes the last byte of a Set Tempo for the tempo.
do_meta_event_low_byte(type, data) ==
    LET length == Len(data)
    IN  CASE type = 2 -> [ st |-> "ok", value |-> -1 ]
          [] type = 3 -> [ st |-> "ok", value |-> -1 ]
          [] type = 47 -> [ st |-> IF length # 0 THEN "throw" ELSE "ok", value |-> -1 ]
          [] type = 81 -> IF length # 3 THEN [ st |-> "throw", value |-> -1 ]
                          ELSE [ st |-> "ok", value |-> data[3] ]
          [] type = 88 -> [ st |-> IF length # 4 THEN "throw" ELSE "ok", value |-> -1 ]
          [] type = 89 -> [ st |-> IF length # 2 THEN "throw" ELSE "ok", value |-> -1 ]
          [] OTHER -> [ st |-> IF ndebug THEN "ok" ELSE "abort", value |-> -1 ]

\* do_meta_event with every type giving a tempo.
do_meta_event_any_tempo(type, data) ==
    LET length == Len(data)
    IN  [ st |-> "ok",
          value |-> IF length >= 3 THEN data[1] * 65536 + data[2] * 256 + data[3] ELSE 0 ]

\* do_meta_event that takes a payload of any length.
do_meta_event_unchecked(type, data) ==
    LET length == Len(data)
    IN  [ st |-> IF type \in { 2, 3, 47, 81, 88, 89 } \/ ndebug THEN "ok" ELSE "abort",
          value |-> IF type = 81 /\ length >= 3
                    THEN data[1] * 65536 + data[2] * 256 + data[3] ELSE -1 ]

\* do_meta_event: how it ends, and the tempo it computes for type 0x51
\* (-1 for every other type).
do_meta_event(type, data) ==
    LET length == Len(data)
    IN  CASE type = 2 -> [ st |-> "ok", value |-> -1 ]
          [] type = 3 -> [ st |-> "ok", value |-> -1 ]
          [] type = 47 -> [ st |-> IF length # 0 THEN "throw" ELSE "ok", value |-> -1 ]
          [] type = 81 -> IF length # 3 THEN [ st |-> "throw", value |-> -1 ]
                          ELSE [ st |-> "ok",
                                 value |-> data[1] * 65536 + data[2] * 256 + data[3] ]
          [] type = 88 -> [ st |-> IF length # 4 THEN "throw" ELSE "ok", value |-> -1 ]
          [] type = 89 -> [ st |-> IF length # 2 THEN "throw" ELSE "ok", value |-> -1 ]
          [] OTHER -> [ st |-> IF ndebug THEN "ok" ELSE "abort", value |-> -1 ]

\* The sys event branch of next_division.
sys_event(t, command_byte, out, d) ==
    LET t1 == [ t EXCEPT !.pos_ = t.pos_ + 1 ]
    IN  IF command_byte = 255
        THEN LET type == get_u8(t1)
                 len  == get_var_num(type.t)
             IN  IF type.st # "ok" THEN Result(type.t, out, type.st)
                 ELSE IF AssertFails(type.val <= 127) THEN Result(type.t, out, "abort")
                 ELSE IF len.st # "ok" THEN Result(len.t, out, len.st)
                 ELSE IF ~available(len.t, len.val) THEN Result(len.t, out, EndOfTrack)
                 ELSE LET data == SubSeq(len.t.data_, len.t.pos_ + 1, len.t.pos_ + len.val)
                          m    == do_meta_event(type.val, data)
                      IN  IF m.st # "ok" THEN Result(len.t, out, m.st)
                          ELSE Result([ len.t EXCEPT !.pos_ = len.t.pos_ + len.val ],
                                      Append(out, Event(d, t, "meta", -1, 0,
                                                        <<type.val>> \o data, m.value)),
                                      "ok")
        ELSE IF ~ndebug THEN Result(t1, out, "abort")
        ELSE Result(t1, Append(out, Event(d, t, "unsupported_system_event", -1, 0,
                                          <<command_byte>>, -1)), "ok")

\* next_division that returns without counting the division down.
RECURSIVE next_division_keeps_waiting(_, _, _)
next_division_keeps_waiting(t, out, d) ==
    IF done(t) THEN Result(t, out, "ok")
    ELSE LET v  == IF t.count_down_ = -1 THEN get_var_num(t)
                   ELSE [ st |-> "ok", val |-> t.count_down_, t |-> t ]
             t1 == [ v.t EXCEPT !.count_down_ = v.val ]
         IN  IF v.st # "ok" THEN Result(v.t, out, v.st)
             ELSE IF t1.count_down_ > 0 THEN Result(t1, out, "ok")
             ELSE IF ~available(t1, 1) THEN Result(t1, out, EndOfTrack)
             ELSE LET command_byte == t1.data_[t1.pos_ + 1]
                      r == IF command_byte >= 240
                           THEN sys_event(t1, command_byte, out, d)
                           ELSE channel_message(t1, command_byte, out, d)
                  IN  IF r.st # "ok" THEN r
                      ELSE next_division_keeps_waiting([ r.t EXCEPT !.count_down_ = -1 ],
                                                       r.out, d)

\* next_division that handles the event as soon as its delta time is read.
RECURSIVE next_division_no_wait(_, _, _)
next_division_no_wait(t, out, d) ==
    IF done(t) THEN Result(t, out, "ok")
    ELSE LET v == get_var_num(t)
         IN  IF v.st # "ok" THEN Result(v.t, out, v.st)
             ELSE IF ~available(v.t, 1) THEN Result(v.t, out, EndOfTrack)
             ELSE LET command_byte == v.t.data_[v.t.pos_ + 1]
                      r == IF command_byte >= 240
                           THEN sys_event(v.t, command_byte, out, d)
                           ELSE channel_message(v.t, command_byte, out, d)
                  IN  IF r.st # "ok" THEN r
                      ELSE Result(r.t, r.out, "ok")

\* track::next_division: while the track is not done, read the delta time
\* when none is pending, count one division down and return while it is
\* positive, otherwise handle the event and go on with the next one.
RECURSIVE next_division(_, _, _)
next_division(t, out, d) ==
    IF done(t) THEN Result(t, out, "ok")
    ELSE LET v  == IF t.count_down_ = -1 THEN get_var_num(t)
                   ELSE [ st |-> "ok", val |-> t.count_down_, t |-> t ]
             t1 == [ v.t EXCEPT !.count_down_ = v.val ]
         IN  IF v.st # "ok" THEN Result(v.t, out, v.st)
             ELSE IF t1.count_down_ > 0
                  THEN Result([ t1 EXCEPT !.count_down_ = t1.count_down_ - 1 ], out, "ok")
             ELSE IF ~available(t1, 1) THEN Result(t1, out, EndOfTrack)
             ELSE LET command_byte == t1.data_[t1.pos_ + 1]
                      r == IF command_byte >= 240
                           THEN sys_event(t1, command_byte, out, d)
                           ELSE channel_message(t1, command_byte, out, d)
                  IN  IF r.st # "ok" THEN r
                      ELSE next_division([ r.t EXCEPT !.count_down_ = -1 ], r.out, d)

\* The for loop taking the tracks from the last to the first.
RECURSIVE for_each_track_backwards(_, _, _, _)
for_each_track_backwards(ts, i, out, d) ==
    IF i > Len(ts) THEN [ ts |-> ts, out |-> out, st |-> "ok" ]
    ELSE LET n == Len(ts) + 1 - i
             r == next_division(ts[n], out, d)
         IN  IF r.st # "ok" THEN [ ts |-> [ ts EXCEPT ![n] = r.t ], out |-> r.out, st |-> r.st ]
             ELSE for_each_track_backwards([ ts EXCEPT ![n] = r.t ], i + 1, r.out, d)

\* The for loop of player::impl::impl over tracks_, from track i on; an
\* exception or a failed assert leaves it.
RECURSIVE for_each_track(_, _, _, _)
for_each_track(ts, i, out, d) ==
    IF i > Len(ts) THEN [ ts |-> ts, out |-> out, st |-> "ok" ]
    ELSE LET r == next_division(ts[i], out, d)
         IN  IF r.st # "ok" THEN [ ts |-> [ ts EXCEPT ![i] = r.t ], out |-> r.out, st |-> r.st ]
             ELSE for_each_track([ ts EXCEPT ![i] = r.t ], i + 1, r.out, d)

all_done(ts) == \A i \in 1..Len(ts) : done(ts[i])

-----------------------------------------------------------------------------
(* get_var_num called on its own on a byte string. *)

\* The bytes the strings are made of.
VlqBytes == { 0, 64, 104, 127, 132, 135, 189, 255 }

RECURSIVE ByteStrings(_)
ByteStrings(n) ==
    IF n = 0 THEN { <<>> }
    ELSE LET shorter == ByteStrings(n - 1)
         IN  shorter \cup { Append(b, x) : b \in { c \in shorter : Len(c) = n - 1 },
                                            x \in VlqBytes }

VlqNone == [ st |-> "none", val |-> 0 ]

VlqStart ==
    /\ ndebug \in BOOLEAN
    /\ \E data \in ByteStrings(MaxVlqLen) \ { <<>> } : tracks = << TrackInit(0, data) >>
    /\ vlq = VlqNone

VlqParked ==
    /\ ndebug = FALSE
    /\ tracks = <<>>
    /\ vlq = VlqNone

ReadVarNum ==
    /\ vlq.st = "none"
    /\ LET r == get_var_num(tracks[1])
       IN  /\ tracks' = << r.t >>
           /\ vlq' = [ st |-> r.st, val |-> r.val ]
    /\ UNCHANGED ndebug

-----------------------------------------------------------------------------
(* The loop of player::impl::impl on a file of one track.  The track's     *)
(* bytes are written from a script of events: a delta time with the bytes  *)
(* that encode it, then the event's bytes.  status is the event's own      *)
(* status byte, 0 when it has none (running status) or is a meta event.    *)

Ev(delta, dbytes, status, body, meta) ==
    [ delta |-> delta, dbytes |-> dbytes, status |-> status, body |-> body, meta |-> meta ]

EventChoices ==
    { Ev(0,  <<0>>,      144, <<144, 60, 64>>, FALSE),          \* note on, channel 0
      Ev(10, <<10>>,     0,   <<62, 80>>, FALSE),               \* two data bytes
      Ev(10, <<10>>,     128, <<128, 60, 0>>, FALSE),           \* note off, channel 0
      Ev(3,  <<128, 3>>, 193, <<193, 5>>, FALSE),               \* program change, channel 1
      Ev(1,  <<1>>,      0,   <<6>>, FALSE),                    \* one data byte
      Ev(1,  <<1>>,      178, <<178, 7, 100>>, FALSE),          \* controller change, channel 2
      Ev(2,  <<2>>,      208, <<208, 64>>, FALSE),              \* channel pressure
      Ev(0,  <<0>>,      0,   <<255, 81, 3, 7, 161, 32>>, TRUE),\* set tempo 500000
      Ev(0,  <<0>>,      0,   <<255, 47, 0>>, TRUE) }           \* end of track

RECURSIVE Scripts(_, _)
Scripts(choices, n) ==
    IF n = 0 THEN { <<>> }
    ELSE LET shorter == Scripts(choices, n - 1)
         IN  shorter \cup { Append(sc, e) : sc \in { c \in shorter : Len(c) = n - 1 },
                                             e \in choices }

RECURSIVE ScriptBytes(_)
ScriptBytes(sc) ==
    IF sc = <<>> THEN <<>>
    ELSE Head(sc).dbytes \o Head(sc).body \o ScriptBytes(Tail(sc))

DecodeStart ==
    /\ ndebug \in BOOLEAN
    /\ \E sc \in Scripts(EventChoices, MaxEvents) \ { <<>> } :
          /\ script = << sc >>
          /\ tracks = << TrackInit(0, ScriptBytes(sc)) >>
    /\ vlq = VlqNone
    /\ division = 0
    /\ dispatched = <<>>
    /\ failure = "none"

\* Events for the tracks whose buffer ends early; all of them have a case in
\* next_division.
CutEventChoices ==
    { Ev(0,  <<0>>,      144, <<144, 60, 64>>, FALSE),          \* note on, channel 0
      Ev(10, <<10>>,     0,   <<62, 80>>, FALSE),               \* two data bytes
      Ev(3,  <<128, 3>>, 193, <<193, 5>>, FALSE),               \* program change, channel 1
      Ev(0,  <<0>>,      0,   <<255, 81, 3, 7, 161, 32>>, TRUE) }  \* set tempo 500000

\* A track of one or two events whose buffer holds the first k bytes only.
\* The event without a status byte comes after a note on.
CutStart ==
    /\ ndebug \in BOOLEAN
    /\ \E sc \in Scripts(CutEventChoices, 2) \ { <<>> } :
          /\ sc[1].status # 0 \/ sc[1].meta
          /\ Len(sc) = 2 /\ sc[2].status = 0 /\ ~sc[2].meta => sc[1].status = 144
          /\ script = << sc >>
          /\ \E k \in 1..Len(ScriptBytes(sc)) :
                tracks = << TrackInit(0, SubSeq(ScriptBytes(sc), 1, k)) >>
    /\ vlq = VlqNone
    /\ division = 0
    /\ dispatched = <<>>
    /\ failure = "none"

\* The key numbers of MIDI and the statuses that carry one (note off, note
\* on and polyphonic key pressure, on channels 0 and 5).
MidiKeys == 0..127

KeyStatuses == { 128, 144, 160, 149 }

\* A track of one message with a key, velocity 64.
KeysStart ==
    /\ ndebug \in BOOLEAN
    /\ \E status \in KeyStatuses, key \in MidiKeys :
          /\ script = << << Ev(0, <<0>>, status, << status, key, 64 >>, FALSE) >> >>
          /\ tracks = << TrackInit(0, << 0, status, key, 64 >>) >>
    /\ vlq = VlqNone
    /\ division = 0
    /\ dispatched = <<>>
    /\ failure = "none"

PlayParked ==
    /\ script = <<>>
    /\ division = 0
    /\ dispatched = <<>>
    /\ failure = "none"

\* One round of the while loop of player::impl::impl: next_division on
\* every track in order, then ++division.
PlayDivision ==
    /\ division < MaxDivisions
    /\ failure = "none"
    /\ ~all_done(tracks)
    /\ LET r == for_each_track(tracks, 1, dispatched, division)
       IN  /\ tracks' = r.ts
           /\ dispatched' = r.out
           /\ failure' = IF r.st = "ok" THEN "none" ELSE r.st
           /\ division' = IF r.st = "ok" THEN division + 1 ELSE division
    /\ UNCHANGED <<ndebug, vlq, script>>

-----------------------------------------------------------------------------
(* The sequencer's clock: advance turns elapsed microseconds into ticks,   *)
(* each tick being one round of next_division over the tracks.  The count  *)
(* of ticks is division.  The clock starts with a tick due at once.         *)

default_tempo == 500000

\* The tick length taken as the whole quarter note.
tick_length_undivided(tempo, tpq) == tempo

\* The tick length of half the tempo.
tick_length_halved(tempo, tpq) == tempo \div (2 * tpq)

tick_length(tempo, tpq) == tempo \div tpq

\* The tempo after the events a tick dispatched: that of the last Set Tempo
\* among them, else the tempo as it was.
RECURSIVE tempo_after(_, _, _)
tempo_after(out, from, tempo) ==
    IF from > Len(out) THEN tempo
    ELSE tempo_after(out, from + 1,
                     IF out[from].kind = "meta" /\ out[from].value >= 0
                     THEN out[from].value ELSE tempo)

\* The while loop of advance from the clock p on.  st is "ok" when the loop
\* is left, "hang" when it cannot be left (a tick length of 0 and no event
\* to come), "over" when it takes more than MaxTicksPerAdvance ticks, else
\* how a track failed.  The clock and the outcome of a tick are bound
\* through a one-element set, which evaluates each of them once.
RECURSIVE advance_loop(_, _)
advance_tick(p, r, ticks) ==
    LET tempo == tempo_after(r.out, Len(p.out) + 1, p.tempo)
    IN  IF r.st # "ok" THEN [ p EXCEPT !.ts = r.ts, !.out = r.out, !.st = r.st ]
        ELSE advance_loop([ ts |-> r.ts, out |-> r.out, st |-> "ok",
                            division |-> p.division + 1,
                            tempo |-> tempo,
                            toNext |-> p.toNext + tick_length(tempo, midi_divisions) ],
                          ticks + 1)

\* The loop left as soon as microsecondsToNextTick is not negative.
advance_from_stops_at_zero(p, ticks) ==
    IF p.toNext >= 0 THEN p
    ELSE IF tick_length(p.tempo, midi_divisions) = 0 /\ all_done(p.ts)
         THEN [ p EXCEPT !.st = "hang" ]
    ELSE IF ticks = MaxTicksPerAdvance THEN [ p EXCEPT !.st = "over" ]
    ELSE CHOOSE q \in { advance_tick(p, r, ticks) :
                           r \in { for_each_track(p.ts, 1, p.out, p.division) } } : TRUE

advance_from(p, ticks) ==
    IF p.toNext > 0 THEN p
    ELSE IF tick_length(p.tempo, midi_divisions) = 0 /\ all_done(p.ts)
         THEN [ p EXCEPT !.st = "hang" ]
    ELSE IF ticks = MaxTicksPerAdvance THEN [ p EXCEPT !.st = "over" ]
    ELSE CHOOSE q \in { advance_tick(p, r, ticks) :
                           r \in { for_each_track(p.ts, 1, p.out, p.division) } } : TRUE

advance_loop(clock, ticks) ==
    CHOOSE q \in { advance_from(p, ticks) : p \in { clock } } : TRUE

\* midi::max_channels.
max_channels == 16

\* The calls the channel interface has.
SinkCalls == { "note_off", "note_on", "polyphonic_key_pressure", "controller_change",
               "program_change" }

\* midi_player_0 registers channels_[i] for every channel i; sink i + 1
\* stands for channels_[i].
AllRegistered == [ c \in 0..(max_channels - 1) |-> c + 1 ]

NoneRegistered == [ c \in 0..(max_channels - 1) |-> 0 ]

\* The calls the events out[from..] make on the registered sinks: a channel
\* event goes to the sink registered for its channel, to none when there is
\* none.
RECURSIVE route(_, _, _)
route(out, from, reg) ==
    IF from > Len(out) THEN <<>>
    ELSE LET e == out[from]
         IN  IF e.kind \in SinkCalls /\ reg[e.channel] # 0
             THEN << [ sink |-> reg[e.channel], event |-> e ] >> \o route(out, from + 1, reg)
             ELSE route(out, from + 1, reg)

SinkParked ==
    /\ registered = NoneRegistered
    /\ delivered = <<>>

PlayerEventChoices ==
    { Ev(0, <<0>>, 0,   <<255, 81, 3, 0, 0, 7>>, TRUE),      \* set tempo 7
      Ev(0, <<0>>, 0,   <<255, 81, 3, 0, 0, 6>>, TRUE),      \* set tempo 6
      Ev(1, <<1>>, 0,   <<255, 81, 3, 1, 2, 3>>, TRUE),      \* set tempo 66051
      Ev(1, <<1>>, 0,   <<255, 81, 3, 0, 0, 1>>, TRUE),      \* set tempo 1
      Ev(1, <<1>>, 144, <<144, 60, 64>>, FALSE),             \* note on, channel 0
      Ev(2, <<2>>, 0,   <<255, 88, 4, 4, 2, 24, 8>>, TRUE) } \* time signature

\* The files played: one track of up to MaxEvents events, or two tracks of
\* one event each.
PlayerFiles ==
    { << sc >> : sc \in Scripts(PlayerEventChoices, MaxEvents) \ { <<>> } }
        \cup { << sc1, sc2 >> : sc1 \in Scripts(PlayerEventChoices, 1) \ { <<>> },
                                sc2 \in Scripts(PlayerEventChoices, 1) \ { <<>> } }

TicksPerQuarterChoices == { 2, 4 }

\* The microseconds one call of advance is given (under a second).
AdvanceUs == { 3, 7, 500000 }

PlayerStart ==
    /\ ndebug \in BOOLEAN
    /\ \E f \in PlayerFiles :
          /\ script = f
          /\ tracks = [ i \in 1..Len(f) |-> TrackInit(i - 1, ScriptBytes(f[i])) ]
    /\ vlq = VlqNone
    /\ division = 0
    /\ dispatched = <<>>
    /\ failure = "none"
    /\ midi_divisions \in TicksPerQuarterChoices
    /\ microsecondsPerQuarterNote = default_tempo
    /\ microsecondsToNextTick = 0
    /\ elapsed = 0
    /\ advances = 0
    /\ registered = AllRegistered
    /\ delivered = <<>>

ClockParked ==
    /\ midi_divisions = 0
    /\ microsecondsPerQuarterNote = default_tempo
    /\ microsecondsToNextTick = 0
    /\ elapsed = 0
    /\ advances = 0

\* advance(deltaSeconds), the time given in microseconds.
Advance(us) ==
    /\ failure = "none"
    /\ advances < MaxAdvances
    /\ \E p \in { advance_loop([ ts |-> tracks, out |-> dispatched, st |-> "ok",
                                  division |-> division,
                                  tempo |-> microsecondsPerQuarterNote,
                                  toNext |-> microsecondsToNextTick - us ], 0) } :
           /\ p.st # "over"
           /\ tracks' = p.ts
           /\ dispatched' = p.out
           /\ division' = p.division
           /\ microsecondsPerQuarterNote' = p.tempo
           /\ microsecondsToNextTick' = p.toNext
           /\ failure' = IF p.st = "ok" THEN "none" ELSE p.st
           /\ delivered' = delivered \o route(p.out, Len(dispatched) + 1, registered)
    /\ elapsed' = elapsed + us
    /\ advances' = advances + 1
    /\ UNCHANGED <<ndebug, vlq, script, midi_divisions, registered>>

\* A file of events on channels 0, 1 and 15 played with any of four
\* registrations.
RouteEventChoices ==
    { Ev(0, <<0>>, 144, <<144, 60, 64>>, FALSE),    \* note on, channel 0
      Ev(1, <<1>>, 129, <<129, 60, 0>>, FALSE),     \* note off, channel 1
      Ev(0, <<0>>, 0,   <<62, 80>>, FALSE),         \* two data bytes
      Ev(1, <<1>>, 207, <<207, 5>>, FALSE) }        \* program change, channel 15

RouteFiles ==
    { << sc >> : sc \in Scripts(RouteEventChoices, MaxEvents) \ { <<>> } }
        \cup { << sc1, sc2 >> : sc1 \in Scripts(RouteEventChoices, 1) \ { <<>> },
                                sc2 \in Scripts(RouteEventChoices, 1) \ { <<>> } }

RegisteredChoices ==
    { AllRegistered, NoneRegistered,
      [ NoneRegistered EXCEPT ![0] = 1 ],
      [ NoneRegistered EXCEPT ![1] = 2, ![15] = 16 ] }

RouteStart ==
    /\ ndebug \in BOOLEAN
    /\ \E f \in RouteFiles :
          /\ script = f
          /\ tracks = [ i \in 1..Len(f) |-> TrackInit(i - 1, ScriptBytes(f[i])) ]
    /\ vlq = VlqNone
    /\ division = 0
    /\ dispatched = <<>>
    /\ failure = "none"
    /\ midi_divisions = 2
    /\ microsecondsPerQuarterNote = default_tempo
    /\ microsecondsToNextTick = 0
    /\ elapsed = 0
    /\ advances = 0
    /\ registered \in RegisteredChoices
    /\ delivered = <<>>

-----------------------------------------------------------------------------
(* job_queue: push from any thread, execute_all from one.  A thread is     *)
(* either outside the call ("idle"), in it ("call"), holds mutex_          *)
(* ("locked") or, for the                                                   *)
(* executing thread, is between two rounds of the loop ("loop"), about to   *)
(* call the job it took ("call") or inside that job ("job").                *)

Pushers == { "ui", "other" }

Executor == "audio"

JobsParked ==
    /\ queue_ = <<>>
    /\ mutex_ = "free"
    /\ pushPc = [ t \in Pushers |-> [ at |-> "idle", job |-> 0 ] ]
    /\ execPc = "idle"
    /\ j_ = 0
    /\ pushed = <<>>
    /\ started = <<>>
    /\ running = {}

JobsStart ==
    /\ queue_ = <<>>
    /\ mutex_ = "free"
    /\ pushPc = [ t \in Pushers |-> [ at |-> "idle", job |-> 0 ] ]
    /\ execPc = "idle"
    /\ j_ = 0
    /\ pushed = <<>>
    /\ started = <<>>
    /\ running = {}

\* The jobs handed to push so far.
JobsMade == Len(pushed) + Cardinality({ t \in Pushers : pushPc[t].at # "idle" })

\* push(j) is called by thread t.
PushCall(t) ==
    /\ pushPc[t].at = "idle"
    /\ JobsMade < MaxJobs
    /\ pushPc' = [ pushPc EXCEPT ![t] = [ at |-> "call", job |-> JobsMade + 1 ] ]
    /\ UNCHANGED <<queue_, mutex_, execPc, j_, pushed, started, running>>

\* push: the lock_guard takes mutex_.
PushLock(t) ==
    /\ pushPc[t].at = "call"
    /\ mutex_ = "free"
    /\ mutex_' = t
    /\ pushPc' = [ pushPc EXCEPT ![t].at = "locked" ]
    /\ UNCHANGED <<queue_, execPc, j_, pushed, started, running>>

\* push: queue_.push(j), and the lock_guard lets go of mutex_.
PushEnqueue(t) ==
    /\ pushPc[t].at = "locked"
    /\ queue_' = Append(queue_, pushPc[t].job)
    /\ pushed' = Append(pushed, pushPc[t].job)
    /\ mutex_' = "free"
    /\ pushPc' = [ pushPc EXCEPT ![t] = [ at |-> "idle", job |-> 0 ] ]
    /\ UNCHANGED <<execPc, j_, started, running>>

\* execute_all is called.
ExecuteAll ==
    /\ execPc = "idle"
    /\ execPc' = "loop"
    /\ UNCHANGED <<queue_, mutex_, pushPc, j_, pushed, started, running>>

\* execute_all: a round of the loop starts, the lock_guard takes mutex_.
ExecLock ==
    /\ execPc = "loop"
    /\ mutex_ = "free"
    /\ mutex_' = Executor
    /\ execPc' = "locked"
    /\ j_' = 0
    /\ UNCHANGED <<queue_, pushPc, pushed, started, running>>

\* The locked block of execute_all that leaves the job in queue_.
take_keep(q) == IF q = <<>> THEN [ ret |-> TRUE, j |-> 0, q |-> q ]
                ELSE [ ret |-> FALSE, j |-> Head(q), q |-> q ]

\* The locked block of execute_all: return when queue_ is empty, else
\* j = queue_.front() and queue_.pop().
take(q) == IF q = <<>> THEN [ ret |-> TRUE, j |-> 0, q |-> q ]
           ELSE [ ret |-> FALSE, j |-> Head(q), q |-> Tail(q) ]

ExecTake ==
    /\ execPc = "locked"
    /\ queue_' = take(queue_).q
    /\ j_' = take(queue_).j
    /\ execPc' = IF take(queue_).ret THEN "idle" ELSE "call"
    /\ mutex_' = "free"
    /\ UNCHANGED <<pushPc, pushed, started, running>>

\* execute_all: j() starts.
JobStart ==
    /\ execPc = "call"
    /\ started' = Append(started, j_)
    /\ running' = running \cup { j_ }
    /\ execPc' = "job"
    /\ UNCHANGED <<queue_, mutex_, pushPc, j_, pushed>>

\* execute_all: j() returns, on to the next round.
JobEnd ==
    /\ execPc = "job"
    /\ running' = running \ { j_ }
    /\ execPc' = "loop"
    /\ UNCHANGED <<queue_, mutex_, pushPc, j_, pushed, started>>

-----------------------------------------------------------------------------
(* The audio device and main: the thread of wavedev calls do_mix for every *)
(* buffer, the device reports the buffers it has played (s_callback), and  *)
(* the main thread runs the key listener and the idle handler in            *)
(* g.main_loop() and then destroys everything in reverse order.            *)

AudioStart ==
    /\ audioPc = "wait"
    /\ frame = 0
    /\ drains = 0
    /\ engine = {}
    /\ exiting_ = FALSE
    /\ num_buffers_to_play_ = 2
    /\ next_buffer_ = 0
    /\ playing = 0
    /\ data_mutex = "free"
    /\ mainPc = "main_loop"
    /\ lateBegins = 0
    /\ destroyed = <<>>

AudioParked ==
    /\ audioPc = "exited"
    /\ frame = 0
    /\ drains = 0
    /\ engine = {}
    /\ exiting_ = FALSE
    /\ num_buffers_to_play_ = 0
    /\ next_buffer_ = 0
    /\ playing = 0
    /\ data_mutex = "free"
    /\ mainPc = "destroyed"
    /\ lateBegins = 0
    /\ destroyed = <<>>

\* double_buffer_thread: the locked block.  The wait ends when exiting_ or
\* num_buffers_to_play_ is set; the thread leaves the loop or takes the
\* next buffer.
TakeBuffer ==
    /\ audioPc = "wait"
    /\ exiting_ \/ num_buffers_to_play_ # 0
    /\ IF exiting_
       THEN /\ audioPc' = "exited"
            /\ UNCHANGED <<num_buffers_to_play_, next_buffer_>>
       ELSE /\ audioPc' = "taken"
            /\ num_buffers_to_play_' = num_buffers_to_play_ - 1
            /\ next_buffer_' = 1 - next_buffer_
    /\ UNCHANGED <<frame, drains, engine, exiting_, playing, data_mutex, mainPc,
                   lateBegins, destroyed>>

\* double_buffer_thread: callback_ is called, do_mix starts.
BeginCallback ==
    /\ audioPc = "taken"
    /\ audioPc' = "mix"
    /\ frame' = 0
    /\ drains' = 0
    /\ lateBegins' = IF exiting_ THEN lateBegins + 1 ELSE lateBegins
    /\ UNCHANGED <<engine, exiting_, num_buffers_to_play_, next_buffer_, playing,
                   data_mutex, mainPc, destroyed>>

\* do_mix that calls on_out_callback_ after the first frame.
do_mix_out_early(i) == IF i = 0 THEN "frame" ELSE "out"

\* do_mix: what comes after i frames: another round of the loop, or the
\* call of on_out_callback_ (which main sets).
do_mix(i) == IF i < FramesPerBlock THEN "frame" ELSE "out"

\* do_mix: main_generator_ is called for a frame; it reads
\* sound_instrument_edit_mode and calls the channel or the player.
RenderBegin ==
    /\ audioPc = "mix"
    /\ do_mix(frame) = "frame"
    /\ audioPc' = "frame"
    /\ engine' = engine \cup { [ thread |-> "audio", use |-> "render" ] }
    /\ UNCHANGED <<frame, drains, exiting_, num_buffers_to_play_, next_buffer_,
                   playing, data_mutex, mainPc, lateBegins, destroyed>>

\* do_mix: main_generator_ returns, the frame is stored.
RenderEnd ==
    /\ audioPc = "frame"
    /\ audioPc' = "mix"
    /\ frame' = frame + 1
    /\ engine' = engine \ { [ thread |-> "audio", use |-> "render" ] }
    /\ UNCHANGED <<drains, exiting_, num_buffers_to_play_, next_buffer_, playing,
                   data_mutex, mainPc, lateBegins, destroyed>>

\* The on_out callback of main: takes data_mutex.
OnOutLock ==
    /\ audioPc = "mix"
    /\ do_mix(frame) = "out"
    /\ data_mutex = "free"
    /\ data_mutex' = "audio"
    /\ audioPc' = "out"
    /\ UNCHANGED <<frame, drains, engine, exiting_, num_buffers_to_play_,
                   next_buffer_, playing, mainPc, lateBegins, destroyed>>

\* The on_out callback of main: stores the block, lets go of data_mutex and
\* calls sound_job_queue.execute_all().
OnOutDrain ==
    /\ audioPc = "out"
    /\ data_mutex' = "free"
    /\ audioPc' = "drain"
    /\ drains' = drains + 1
    /\ ExecuteAll
    /\ UNCHANGED <<frame, engine, exiting_, num_buffers_to_play_, next_buffer_,
                   playing, mainPc, lateBegins, destroyed>>

\* A job of main's key listener: it toggles sound_instrument_edit_mode or
\* calls note_on or note_off of the channel.
JobStartInEngine ==
    /\ JobStart
    /\ engine' = engine \cup { [ thread |-> Executor, use |-> "job" ] }
    /\ UNCHANGED <<audioPc, frame, drains, exiting_, num_buffers_to_play_,
                   next_buffer_, playing, data_mutex, mainPc, lateBegins, destroyed>>

JobEndInEngine ==
    /\ JobEnd
    /\ engine' = engine \ { [ thread |-> Executor, use |-> "job" ] }
    /\ UNCHANGED <<audioPc, frame, drains, exiting_, num_buffers_to_play_,
                   next_buffer_, playing, data_mutex, mainPc, lateBegins, destroyed>>

\* execute_all has returned, and with it on_out_callback_ and do_mix.
OnOutReturn ==
    /\ audioPc = "drain"
    /\ execPc = "idle"
    /\ audioPc' = "write"
    /\ UNCHANGED <<frame, drains, engine, exiting_, num_buffers_to_play_, next_buffer_,
                   playing, data_mutex, mainPc, lateBegins, destroyed>>

\* double_buffer_thread: do_mix has returned; waveOutPrepareHeader and
\* waveOutWrite hand the buffer to the device, on to the next round.
WriteBuffer ==
    /\ audioPc = "write"
    /\ audioPc' = "wait"
    /\ playing' = playing + 1
    /\ UNCHANGED <<frame, drains, engine, exiting_, num_buffers_to_play_,
                   next_buffer_, data_mutex, mainPc, lateBegins, destroyed>>

\* s_callback with MM_WOM_DONE, called by the device for a buffer it is done
\* with.
s_callback ==
    /\ playing > 0
    /\ playing' = playing - 1
    /\ num_buffers_to_play_' = num_buffers_to_play_ + 1
    /\ UNCHANGED <<audioPc, frame, drains, engine, exiting_, next_buffer_,
                   data_mutex, mainPc, lateBegins, destroyed>>

\* The idle handler of main: takes the block under data_mutex.
IdleLock ==
    /\ mainPc = "main_loop"
    /\ pushPc["ui"].at = "idle"
    /\ data_mutex = "free"
    /\ data_mutex' = "ui"
    /\ UNCHANGED <<audioPc, frame, drains, engine, exiting_, num_buffers_to_play_,
                   next_buffer_, playing, mainPc, lateBegins, destroyed>>

IdleUnlock ==
    /\ data_mutex = "ui"
    /\ data_mutex' = "free"
    /\ UNCHANGED <<audioPc, frame, drains, engine, exiting_, num_buffers_to_play_,
                   next_buffer_, playing, mainPc, lateBegins, destroyed>>

\* The key listener of main: all it does is push a job.
KeyListener ==
    /\ mainPc = "main_loop"
    /\ data_mutex # "ui"
    /\ PushCall("ui")

\* g.main_loop() returns and main leaves its block: ~output_dev, whose
\* first step is ~wavedev.
MainLoopReturns ==
    /\ mainPc = "main_loop"
    /\ pushPc["ui"].at = "idle"
    /\ data_mutex # "ui"
    /\ mainPc' = "dtor"
    /\ UNCHANGED <<audioPc, frame, drains, engine, exiting_, num_buffers_to_play_,
                   next_buffer_, playing, data_mutex, lateBegins, destroyed>>

\* wavedev::impl::~impl: exiting_ = true under mutex_.
SetExiting ==
    /\ mainPc = "dtor"
    /\ exiting_' = TRUE
    /\ mainPc' = "flagged"
    /\ UNCHANGED <<audioPc, frame, drains, engine, num_buffers_to_play_,
                   next_buffer_, playing, data_mutex, lateBegins, destroyed>>

\* wavedev::impl::~impl: cv_.notify_one() and waveOutReset.
NotifyAndReset ==
    /\ mainPc = "flagged"
    /\ mainPc' = "join"
    /\ UNCHANGED <<audioPc, frame, drains, engine, exiting_, num_buffers_to_play_,
                   next_buffer_, playing, data_mutex, lateBegins, destroyed>>

\* ~impl that does not wait for the thread.
join_at_once(pc) == TRUE

\* t_.join() returns when the thread has left double_buffer_thread.
join(pc) == pc = "exited"

Join ==
    /\ mainPc = "join"
    /\ join(audioPc)
    /\ mainPc' = "joined"
    /\ UNCHANGED <<audioPc, frame, drains, engine, exiting_, num_buffers_to_play_,
                   next_buffer_, playing, data_mutex, lateBegins, destroyed>>

\* What main destroys once ~wavedev has returned, in the reverse order of
\* the declarations: the job queue, the channel, and the player with its
\* channels.
DestroyOrder == << "sound_job_queue", "ch", "p" >>

Destroy ==
    /\ mainPc = "joined"
    /\ destroyed' = Append(destroyed, DestroyOrder[Len(destroyed) + 1])
    /\ mainPc' = IF Len(destroyed) + 1 = Len(DestroyOrder) THEN "destroyed" ELSE "joined"
    /\ UNCHANGED <<audioPc, frame, drains, engine, exiting_, num_buffers_to_play_,
                   next_buffer_, playing, data_mutex, lateBegins>>

-----------------------------------------------------------------------------
(* Loading: player::impl::impl reads the header chunk and the track chunks *)
(* from a stream of bytes and then runs every track to its end.            *)

header_chunk_type == << 77, 84, 104, 100 >>     \* 'MThd'

track_chunk_type == << 77, 84, 114, 107 >>      \* 'MTrk'

no_chunk_type == << 0, 0, 0, 0 >>               \* chunk_type{0}

\* in.read(data, n): the bytes read, fewer than n at the end of the stream,
\* which then fails; a stream that has failed reads nothing.
read(bytes, in, n) ==
    IF in.fail THEN [ in |-> in, data |-> <<>> ]
    ELSE IF in.pos + n <= Len(bytes)
         THEN [ in |-> [ in EXCEPT !.pos = in.pos + n ],
                data |-> SubSeq(bytes, in.pos + 1, in.pos + n) ]
         ELSE [ in |-> [ pos |-> Len(bytes), fail |-> TRUE ],
                data |-> SubSeq(bytes, in.pos + 1, Len(bytes)) ]

\* A local array after in.read: the bytes read, then what was there before.
filled(data, before) == data \o SubSeq(before, Len(data) + 1, Len(before))

\* read_be_u16: pack_u16 of the array, whether or not the read filled it.
read_be_u16(bytes, in, before) ==
    LET r == read(bytes, in, 2)
        d == filled(r.data, before)
    IN  [ in |-> r.in, value |-> d[1] * 256 + d[2] ]

\* read_be_u32, for the values below 2^31 that the files here hold.
read_be_u32(bytes, in, before) ==
    LET r == read(bytes, in, 4)
        d == filled(r.data, before)
    IN  [ in |-> r.in, bytes |-> d,
          value |-> ((d[1] * 256 + d[2]) * 256 + d[3]) * 256 + d[4] ]

\* read_chunk_header: type and length, or chunk_type{0} and 0 when the
\* stream has failed (what the arrays held then is not looked at).
read_chunk_header(bytes, in) ==
    LET type   == read_be_u32(bytes, in, no_chunk_type)
        length == read_be_u32(bytes, type.in, no_chunk_type)
    IN  IF length.in.fail
        THEN [ in |-> length.in, type |-> no_chunk_type, length |-> 0 ]
        ELSE [ in |-> length.in, type |-> type.bytes, length |-> length.value ]

\* read_track: the chunk header, then a vector of length zeros that in.read
\* fills as far as the stream goes.
read_track(bytes, in) ==
    LET h == read_chunk_header(bytes, in)
        r == read(bytes, h.in, h.length)
    IN  IF h.length = 0 \/ h.in.fail
        THEN IF AssertFails(h.type = no_chunk_type)
             THEN [ in |-> h.in, st |-> "abort", what |-> "", data |-> <<>>, real |-> 0 ]
             ELSE [ in |-> h.in, st |-> "throw", what |-> "Unexpected EOF", data |-> <<>>,
                    real |-> 0 ]
        ELSE IF h.type # track_chunk_type
        THEN [ in |-> h.in, st |-> "throw", what |-> "Invalid track header", data |-> <<>>,
               real |-> 0 ]
        ELSE [ in |-> r.in, st |-> "ok", what |-> "",
               data |-> filled(r.data, [ i \in 1..h.length |-> 0 ]), real |-> Len(r.data) ]

\* static_cast<int16_t> of a uint16_t.
int16(v) == IF v >= 32768 THEN v - 65536 ELSE v

\* The header checks of player::impl::impl: the exception thrown, "" when
\* none.
header_error(h, format) ==
    IF h.type # header_chunk_type \/ h.length # 6 THEN "Invalid MIDI header"
    ELSE IF format # 1 THEN "Unsupported MIDI format"
    ELSE ""

LoadParked ==
    /\ file = <<>>
    /\ made = [ type |-> header_chunk_type, length |-> 6, format |-> 1, tracks |-> 0,
                divisions |-> 0, payloads |-> <<>>, flaw |-> "none" ]
    /\ in_ = [ pos |-> 0, fail |-> FALSE ]
    /\ garbage = << << 0, 0 >>, << 0, 0 >>, << 0, 0 >> >>
    /\ loadPc = "loaded"
    /\ midi_header = [ format |-> 1, tracks |-> 0, divisions |-> 0 ]
    /\ track_number = 0
    /\ padded = 0
    /\ what = ""

\* The files that are loaded: a header chunk and track chunks made of the
\* fields in a record, and the same cut short.
Be16(x) == << x \div 256, x % 256 >>

Be32(x) == << 0, 0 >> \o Be16(x)

ChunkBytes(type, length, payload) == type \o Be32(length) \o payload

RECURSIVE TrackChunks(_)
TrackChunks(payloads) ==
    IF payloads = <<>> THEN <<>>
    ELSE ChunkBytes(track_chunk_type, Len(Head(payloads)), Head(payloads))
             \o TrackChunks(Tail(payloads))

FileBytes(m) ==
    ChunkBytes(m.type, m.length, Be16(m.format) \o Be16(m.tracks) \o Be16(m.divisions))
        \o TrackChunks(m.payloads)

Made(type, length, format, divisions, payloads, flaw) ==
    [ type |-> type, length |-> length, format |-> format, tracks |-> Len(payloads),
      divisions |-> divisions, payloads |-> payloads, flaw |-> flaw ]

\* A note on and the end of the track.
GoodTrack == << 0, 144, 60, 64, 0, 255, 47, 0 >>

\* A note off after 3 divisions and the end of the track.
OtherTrack == << 3, 128, 60, 0, 0, 255, 47, 0 >>

FlawedTracks ==
    { [ flaw |-> "vlq",            \* a delta time of five bytes
        payload |-> << 128, 128, 128, 128, 0, 144, 60, 64, 0, 255, 47, 0 >> ],
      [ flaw |-> "data_byte",      \* a note on with velocity 200
        payload |-> << 0, 144, 60, 200, 0, 255, 47, 0 >> ],
      [ flaw |-> "sys_event",      \* status 0xF0 before a note on
        payload |-> << 0, 240, 0, 144, 60, 64, 0, 255, 47, 0 >> ],
      [ flaw |-> "meta_length",    \* a Set Tempo of length 2
        payload |-> << 0, 255, 81, 2, 7, 161, 0, 255, 47, 0 >> ],
      [ flaw |-> "meta_length",    \* a note on, a Set Tempo of length 4, a note on
        payload |-> << 0, 144, 60, 64, 0, 255, 81, 4, 0, 7, 161, 32, 0, 144, 62, 64,
                       0, 255, 47, 0 >> ],
      [ flaw |-> "meta_length",    \* an End of Track of length 1, a note on
        payload |-> << 0, 255, 47, 1, 0, 0, 144, 62, 64, 0, 255, 47, 0 >> ],
      [ flaw |-> "meta_length",    \* a Time Signature of length 3
        payload |-> << 0, 255, 88, 3, 4, 2, 24, 0, 255, 47, 0 >> ],
      [ flaw |-> "meta_length",    \* a Key Signature of length 1
        payload |-> << 0, 255, 89, 1, 0, 0, 255, 47, 0 >> ],
      [ flaw |-> "running_status", \* data bytes with no status before them
        payload |-> << 0, 1, 2, 0, 255, 47, 0 >> ] }

GoodFiles ==
    { Made(header_chunk_type, 6, 1, 96, << GoodTrack >>, "none"),
      Made(header_chunk_type, 6, 1, 96, << GoodTrack, OtherTrack >>, "none") }

FlawedFiles ==
    { Made(track_chunk_type, 6, 1, 96, << GoodTrack >>, "tag"),
      Made(header_chunk_type, 7, 1, 96, << GoodTrack >>, "length"),
      Made(header_chunk_type, 6, 0, 96, << GoodTrack >>, "format"),
      Made(header_chunk_type, 6, 2, 96, << GoodTrack >>, "format"),
      Made(header_chunk_type, 6, 1, 57936, << GoodTrack >>, "smpte") }
    \cup { Made(header_chunk_type, 6, 1, 96, << f.payload >>, f.flaw) : f \in FlawedTracks }

\* A pitch bend on channel 1 (status 0xE1) and the end of the track.
PitchBendTrack == << 0, 225, 0, 1, 0, 255, 47, 0 >>

\* A text event (meta type 0x01) of two bytes, a note on and the end of the
\* track.
UnknownMetaTrack == << 0, 255, 1, 2, 65, 66, 0, 144, 60, 64, 0, 255, 47, 0 >>

\* Two tracks with events in the same divisions: two note ons in division 0
\* and a note off and the end of the track in division 2, on channel 0;
\* a note on in division 0 and a note off and the end of the track in
\* division 2, on channel 1.
FirstOfTwo == << 0, 144, 60, 64, 0, 144, 62, 64, 2, 128, 60, 0, 0, 255, 47, 0 >>

SecondOfTwo == << 0, 145, 60, 64, 2, 129, 60, 0, 0, 255, 47, 0 >>

\* A channel pressure of 1 on channel 0 (status 0xD0, one data byte), a note
\* on and the end of the track.
ChannelPressureTrack == << 0, 208, 1, 0, 144, 60, 64, 0, 255, 47, 0 >>

\* Files without a fatal condition that hold less common events.
UncommonFiles ==
    { Made(header_chunk_type, 6, 1, 96, << PitchBendTrack >>, "none"),
      Made(header_chunk_type, 6, 1, 96, << UnknownMetaTrack >>, "none"),
      Made(header_chunk_type, 6, 1, 96, << FirstOfTwo, SecondOfTwo >>, "none"),
      Made(header_chunk_type, 6, 1, 96, << ChannelPressureTrack >>, "none") }

\* What the arrays of the three read_be_u16 calls may hold before the read.
GarbageChoices == { << 0, 0 >>, << 0, 1 >>, << 255, 255 >> }

\* The header chunk takes bytes 1 to 14 of a file, its three fields bytes 9
\* to 14.
CutInFields(bytes) == Len(bytes) >= 8 /\ Len(bytes) < 14

LoadStart ==
    /\ ndebug \in BOOLEAN
    /\ \E m \in GoodFiles \cup FlawedFiles \cup UncommonFiles :
          /\ made = m
          /\ \E k \in 0..Len(FileBytes(m)) :
                /\ k < Len(FileBytes(m)) => m \in GoodFiles
                /\ file = SubSeq(FileBytes(m), 1, k)
    /\ garbage \in IF CutInFields(file)
                   THEN [ 1..3 -> GarbageChoices ]
                   ELSE { [ i \in 1..3 |-> << 0, 0 >> ] }
    /\ in_ = [ pos |-> 0, fail |-> FALSE ]
    /\ loadPc = "header"
    /\ midi_header = [ format |-> 0, tracks |-> 0, divisions |-> 0 ]
    /\ track_number = 0
    /\ padded = 0
    /\ what = ""
    /\ tracks = <<>>
    /\ vlq = VlqNone
    /\ script = <<>>
    /\ division = 0
    /\ dispatched = <<>>
    /\ failure = "none"

\* player::impl::impl up to the loop that reads the tracks.
LoadHeader ==
    /\ loadPc = "header"
    /\ LET h == read_chunk_header(file, in_)
           f == read_be_u16(file, h.in, garbage[1])
           t == read_be_u16(file, f.in, garbage[2])
           d == read_be_u16(file, t.in, garbage[3])
           e == header_error(h, f.value)
       IN  IF e = "Invalid MIDI header"
           THEN /\ in_' = h.in
                /\ what' = e
                /\ failure' = "throw"
                /\ loadPc' = "failed"
                /\ UNCHANGED midi_header
           ELSE /\ in_' = d.in
                /\ midi_header' = [ format |-> f.value, tracks |-> int16(t.value),
                                    divisions |-> d.value ]
                /\ what' = e
                /\ failure' = IF e # "" THEN "throw" ELSE "none"
                /\ loadPc' = IF e # "" THEN "failed" ELSE "tracks"
    /\ UNCHANGED <<file, made, garbage, track_number, padded>>
    /\ UNCHANGED <<ndebug, tracks, vlq, script, division, dispatched>>

\* One round of the loop that reads the tracks, or its end.
LoadTrack ==
    /\ loadPc = "tracks"
    /\ IF track_number < midi_header.tracks
       THEN LET r == read_track(file, in_)
            IN  /\ in_' = r.in
                /\ what' = r.what
                /\ failure' = IF r.st = "ok" THEN "none" ELSE r.st
                /\ loadPc' = IF r.st = "ok" THEN "tracks" ELSE "failed"
                /\ tracks' = IF r.st = "ok" THEN Append(tracks, TrackInit(track_number, r.data))
                             ELSE tracks
                /\ padded' = IF r.st = "ok" THEN padded + (Len(r.data) - r.real) ELSE padded
                /\ track_number' = IF r.st = "ok" THEN track_number + 1 ELSE track_number
       ELSE /\ loadPc' = "divisions"
            /\ UNCHANGED <<in_, what, failure, tracks, padded, track_number>>
    /\ UNCHANGED <<file, made, garbage, midi_header>>
    /\ UNCHANGED <<ndebug, vlq, script, division, dispatched>>

\* One round of the while loop of player::impl::impl, or its end and with
\* it the end of the constructor.
LoadDivision ==
    /\ loadPc = "divisions"
    /\ IF all_done(tracks)
       THEN /\ loadPc' = "loaded"
            /\ UNCHANGED <<vlqVars, playVars, what>>
       ELSE /\ PlayDivision
            /\ loadPc' = IF failure' = "none" THEN "divisions" ELSE "failed"
            /\ UNCHANGED what
    /\ UNCHANGED <<file, made, in_, garbage, midi_header, track_number, padded>>

-----------------------------------------------------------------------------
(* wavedev::impl on its own: double_buffer_thread, the notifications of the *)
(* device (s_callback with MM_WOM_DONE) and ~impl.  The locked block of the *)
(* thread and the one of s_callback are one step each.  The device plays    *)
(* the buffers in the order they were written, and waveOutReset has it      *)
(* report every buffer it holds as done.                                    *)

\* What a read of num_buffers_to_play_ may find once the object is destroyed.
GarbageCounts == { -1, 0, 1, 2, 3 }

WaveStart ==
    /\ ndebug \in BOOLEAN
    /\ tracks = <<>>
    /\ vlq = VlqNone
    /\ audioPc = "wait"
    /\ frame = 0
    /\ drains = 0
    /\ engine = {}
    /\ exiting_ = FALSE
    /\ num_buffers_to_play_ = 2
    /\ next_buffer_ = 0
    /\ playing = 0
    /\ data_mutex = "free"
    /\ mainPc = "main_loop"
    /\ lateBegins = 0
    /\ destroyed = <<>>
    /\ buffer = -1
    /\ queued = <<>>
    /\ resetLeft = 0
    /\ callers = {}
    /\ waveFailure = "none"

WaveParked ==
    /\ buffer = -1
    /\ queued = <<>>
    /\ resetLeft = 0
    /\ callers = {}
    /\ waveFailure = "none"

\* What the wave device leaves alone.
WaveOthers ==
    <<poolVars, envVars, tracks, vlq, playVars, clockVars, sinkVars, jobVars, loadVars,
      ctlVars, envKeys, voxVars, mixVars,
      frame, drains, engine, playing, data_mutex, lateBegins, destroyed>>

\* double_buffer_thread: the locked block.
WaveTake ==
    /\ waveFailure = "none"
    /\ audioPc = "wait"
    /\ exiting_ \/ num_buffers_to_play_ # 0
    /\ IF exiting_
       THEN /\ audioPc' = "exited"
            /\ UNCHANGED <<num_buffers_to_play_, next_buffer_, buffer, waveFailure>>
       ELSE IF AssertFails(num_buffers_to_play_ >= 1 /\ num_buffers_to_play_ <= 2)
       THEN /\ waveFailure' = "abort"
            /\ UNCHANGED <<audioPc, num_buffers_to_play_, next_buffer_, buffer>>
       ELSE /\ audioPc' = "taken"
            /\ buffer' = next_buffer_
            /\ num_buffers_to_play_' = num_buffers_to_play_ - 1
            /\ next_buffer_' = 1 - next_buffer_
            /\ UNCHANGED waveFailure
    /\ UNCHANGED <<exiting_, mainPc, queued, resetLeft, callers, ndebug, WaveOthers>>

\* double_buffer_thread: callback_ is called with the buffer.
WaveCallback ==
    /\ waveFailure = "none"
    /\ audioPc = "taken"
    /\ audioPc' = "callback"
    /\ callers' = callers \cup { "audio" }
    /\ UNCHANGED <<exiting_, num_buffers_to_play_, next_buffer_, mainPc, buffer, queued,
                   resetLeft, waveFailure, ndebug, WaveOthers>>

\* double_buffer_thread: callback_ returns.
WaveCallbackReturns ==
    /\ waveFailure = "none"
    /\ audioPc = "callback"
    /\ audioPc' = "write"
    /\ callers' = callers \ { "audio" }
    /\ UNCHANGED <<exiting_, num_buffers_to_play_, next_buffer_, mainPc, buffer, queued,
                   resetLeft, waveFailure, ndebug, WaveOthers>>

\* double_buffer_thread: waveOutPrepareHeader and waveOutWrite, and on to
\* the next round of the loop.
WaveWrite ==
    /\ waveFailure = "none"
    /\ audioPc = "write"
    /\ audioPc' = "wait"
    /\ queued' = Append(queued, buffer)
    /\ buffer' = -1
    /\ UNCHANGED <<exiting_, num_buffers_to_play_, next_buffer_, mainPc, resetLeft,
                   callers, waveFailure, ndebug, WaveOthers>>

\* s_callback with MM_WOM_DONE for the buffer at the head of the device's
\* queue.  Once the object is destroyed dwInstance dangles, and the count
\* the callback reads is any value.
WaveDone ==
    /\ waveFailure = "none"
    /\ queued # <<>>
    /\ queued' = Tail(queued)
    /\ resetLeft' = IF resetLeft > 0 THEN resetLeft - 1 ELSE 0
    /\ \E found \in IF mainPc = "destroyed" THEN GarbageCounts
                     ELSE { num_buffers_to_play_ } :
          IF AssertFails(found >= 0 /\ found < 2)
          THEN waveFailure' = "abort" /\ UNCHANGED num_buffers_to_play_
          ELSE num_buffers_to_play_' = found + 1 /\ UNCHANGED waveFailure
    /\ UNCHANGED <<audioPc, exiting_, next_buffer_, mainPc, buffer, callers, ndebug,
                   WaveOthers>>

\* ~impl: exiting_ = true under mutex_.
WaveSetExiting ==
    /\ waveFailure = "none"
    /\ mainPc = "main_loop"
    /\ mainPc' = "flagged"
    /\ exiting_' = TRUE
    /\ UNCHANGED <<audioPc, num_buffers_to_play_, next_buffer_, buffer, queued, resetLeft,
                   callers, waveFailure, ndebug, WaveOthers>>

\* ~impl: cv_.notify_one() and the call of waveOutReset, which is to report
\* the buffers the device holds.
WaveReset ==
    /\ waveFailure = "none"
    /\ mainPc = "flagged"
    /\ mainPc' = "reset"
    /\ resetLeft' = Len(queued)
    /\ UNCHANGED <<audioPc, exiting_, num_buffers_to_play_, next_buffer_, buffer, queued,
                   callers, waveFailure, ndebug, WaveOthers>>

\* ~impl: waveOutReset returns.
WaveResetReturns ==
    /\ waveFailure = "none"
    /\ mainPc = "reset"
    /\ resetLeft = 0
    /\ mainPc' = "join"
    /\ UNCHANGED <<audioPc, exiting_, num_buffers_to_play_, next_buffer_, buffer, queued,
                   resetLeft, callers, waveFailure, ndebug, WaveOthers>>

\* ~impl: t_.join() returns when the thread has left double_buffer_thread.
WaveJoin ==
    /\ waveFailure = "none"
    /\ mainPc = "join"
    /\ join(audioPc)
    /\ mainPc' = "joined"
    /\ UNCHANGED <<audioPc, exiting_, num_buffers_to_play_, next_buffer_, buffer, queued,
                   resetLeft, callers, waveFailure, ndebug, WaveOthers>>

\* ~impl returns and the members are destroyed; waveOutClose of waveout_
\* does not take a buffer back from the device.
WaveDestroy ==
    /\ waveFailure = "none"
    /\ mainPc = "joined"
    /\ mainPc' = "destroyed"
    /\ UNCHANGED <<audioPc, exiting_, num_buffers_to_play_, next_buffer_, buffer, queued,
                   resetLeft, callers, waveFailure, ndebug, WaveOthers>>

-----------------------------------------------------------------------------
(* simple_midi_channel::controller_change.  The targets of volume_ and     *)
(* pan_ are value / 127.0f; the model counts them in units of 1/254, which *)
(* makes the 0.5 that pan_ starts with whole.                              *)

TargetScale == 254

controller_volume == 7

controller_pan == 10

\* The controllers whose case is empty: modulation_wheel, damper_pedal and
\* effects1 of midi.h, and sound_controller5 and effects2 to effects5, which
\* midi.h does not have, with their numbers in the MIDI controller table.
NoOpControllers == { 1, 64, 74, 91, 92, 93, 94, 95 }

\* const bool ignore of the default case.
ignore(c) == c = 0 \/ (c >= 32 /\ c <= 63) \/ (c >= 96 /\ c <= 119)

\* controller_change with the assert left out of the default case.
controller_change_no_assert(controller, value, volume, pan) ==
    CASE controller = controller_volume ->
            [ st |-> "ok", volume |-> (value * TargetScale) \div 127, pan |-> pan ]
      [] controller = controller_pan ->
            [ st |-> "ok", volume |-> volume, pan |-> (value * TargetScale) \div 127 ]
      [] OTHER -> [ st |-> "ok", volume |-> volume, pan |-> pan ]

\* controller_change: how it ends and the targets after it.
controller_change(controller, value, volume, pan) ==
    CASE controller = controller_volume ->
            [ st |-> "ok", volume |-> (value * TargetScale) \div 127, pan |-> pan ]
      [] controller = controller_pan ->
            [ st |-> IF AssertFails(value <= 127) THEN "abort" ELSE "ok",
              volume |-> volume, pan |-> (value * TargetScale) \div 127 ]
      [] controller \in NoOpControllers ->
            [ st |-> "ok", volume |-> volume, pan |-> pan ]
      [] OTHER ->
            [ st |-> IF AssertFails(ignore(controller)) THEN "abort" ELSE "ok",
              volume |-> volume, pan |-> pan ]

\* The controller numbers and values of a controller change message.
ControllerIds == 0..127

ControllerValues == { 0, 64, 127 }

CtlNone == [ id |-> -1, value |-> 0, volume |-> TargetScale, pan |-> TargetScale \div 2 ]

\* The channel as constructed: volume_ at 1.0, pan_ at 0.5.
CtlParked ==
    /\ volume_target = TargetScale
    /\ pan_target = TargetScale \div 2
    /\ ctlFailure = "none"
    /\ ctlLast = CtlNone

\* oscillator: t_ in units of 1 / CycleUnits of a cycle, freq_ in hundredths
\* of a hertz, so that a sample adds freq_ to t_.
CycleUnits == 100 * samplerate

\* piano_key_to_freq for the keys of the model, in hundredths of a hertz.
piano_key_to_freq(n) ==
    CASE n = piano_key_A_4 -> 44000
      [] n = piano_key_AS4 -> 46616
      [] n = piano_key_B_4 -> 49388

OscillatorInit == [ freq_ |-> 0, t_ |-> 0 ]

\* t_ - floor(t_ + 0.5f)
Fraction(t) == ((t + CycleUnits \div 2) % CycleUnits) - CycleUnits \div 2

\* oscillator::operator() with the sawtooth the voice is built with: the
\* value, in units of 1 / CycleUnits, and the oscillator after it.
oscillator_step(o) ==
    [ val |-> 2 * Fraction(o.t_), osc |-> [ o EXCEPT !.t_ = o.t_ + o.freq_ ] ]

\* The coefficients cutoff_frequeny gives the lowpass, in thousandths.
lowpass_amp == [ in_0 |-> 481, in_1 |-> 962, in_2 |-> 481, out_1 |-> 671, out_2 |-> 252 ]

FilterInit == [ old_in_1 |-> 0, old_in_2 |-> 0, old_out_1 |-> 0, old_out_2 |-> 0 ]

\* biquad_filter::operator(): the value returned and the filter after it.
biquad_step(f, in) ==
    LET out == ( lowpass_amp.in_0 * in + lowpass_amp.in_1 * f.old_in_1
                 + lowpass_amp.in_2 * f.old_in_2 - lowpass_amp.out_1 * f.old_out_1
                 - lowpass_amp.out_2 * f.old_out_2 ) \div 1000
    IN  [ val |-> out \div 2,
          filter |-> [ old_in_1 |-> in, old_in_2 |-> f.old_in_1,
                       old_out_1 |-> out, old_out_2 |-> f.old_out_1 ] ]

\* What signal_envelope::operator()(in) returns, the envelope stepped to e:
\* in * level, in units of 1 / LevelScale.
envelope_out(e, in) ==
    (e.level \div CycleUnits) * in + ((e.level % CycleUnits) * in) \div CycleUnits

\* The voice as constructed, with the members the pool's voices leave out.
VoxInit ==
    [ key_ |-> piano_key_OFF, vel_ |-> 0, samples_played_ |-> 0,
      envelope_ |-> EnvelopeInit, osc_ |-> OscillatorInit, filter_ |-> FilterInit ]

vox_key_on(v, key, vel) ==
    [ v EXCEPT !.key_ = key, !.vel_ = vel, !.osc_.freq_ = piano_key_to_freq(key),
               !.samples_played_ = 0, !.envelope_ = envelope_key_on(v.envelope_) ]

vox_key_off(v) == [ v EXCEPT !.envelope_ = envelope_key_off(v.envelope_) ]

\* operator() that runs the oscillator before it looks whether the voice is
\* active, and does not touch the phase afterwards.
vox_render_osc_first(v) ==
    LET w == [ v EXCEPT !.samples_played_ = v.samples_played_ + 1 ]
        o == oscillator_step(w.osc_)
    IN  IF ~active(w) THEN [ out |-> 0, voice |-> [ w EXCEPT !.osc_ = o.osc ] ]
        ELSE LET f == biquad_step(w.filter_, o.val)
                 e == envelope_step(w.envelope_)
             IN  [ out |-> envelope_out(e, f.val),
                   voice |-> [ w EXCEPT !.osc_ = o.osc, !.filter_ = f.filter,
                                        !.envelope_ = e ] ]

\* voice::operator(): the sample returned and the voice after it.
vox_render(v) ==
    LET w == [ v EXCEPT !.samples_played_ = v.samples_played_ + 1 ]
    IN  IF ~active(w) THEN [ out |-> 0, voice |-> w ]
        ELSE LET o == oscillator_step(w.osc_)
                 f == biquad_step(w.filter_, o.val)
                 e == envelope_step(w.envelope_)
             IN  [ out |-> envelope_out(e, f.val),
                   voice |-> [ w EXCEPT !.osc_ = IF is_off(e) THEN [ o.osc EXCEPT !.t_ = 0 ]
                                                 ELSE o.osc,
                                        !.filter_ = f.filter,
                                        !.envelope_ = e ] ]

VoxStart ==
    /\ vox = VoxInit
    /\ voxPrev = VoxInit
    /\ voxOp = "none"
    /\ voxOut = 0
    /\ voxSteps = 0

VoxParked == VoxStart

VoxOthers ==
    <<poolVars, envVars, vlqVars, playVars, clockVars, sinkVars, jobVars, audioVars,
      loadVars, ctlVars, envKeys, mixVars, waveVars>>

VoxKeyOn(key, vel) ==
    /\ vox' = vox_key_on(vox, key, vel)
    /\ voxPrev' = vox
    /\ voxOp' = "key_on"
    /\ UNCHANGED <<voxOut, voxSteps, VoxOthers>>

VoxKeyOff ==
    /\ vox' = vox_key_off(vox)
    /\ voxPrev' = vox
    /\ voxOp' = "key_off"
    /\ UNCHANGED <<voxOut, voxSteps, VoxOthers>>

VoxRender ==
    /\ voxSteps < MaxVoxSteps
    /\ LET r == vox_render(vox)
       IN  vox' = r.voice /\ voxOut' = r.out
    /\ voxPrev' = vox
    /\ voxOp' = "render"
    /\ voxSteps' = voxSteps + 1
    /\ UNCHANGED VoxOthers

\* exp_ramped_value: value_ and target_ in units of 1 / RampScale; calls
\* counts the calls of operator()().
RampScale == TargetScale * 100

\* log(0.000001) - log(1.0), the two limits volume_ and pan_ are given, in
\* hundredths.
LogSpan == -1382

\* calc_exp_multiplier for a slide of length hundredths of a second, between
\* the limits, as <<num, den>>: downwards (max to min) or upwards.
slide_multiplier(length, down) ==
    LET den == length * RampRate
    IN  << IF down THEN den + LogSpan ELSE den - LogSpan, den >>

\* exp_ramped_value(min, value, max, slide_length).
RampInit(value, length) ==
    [ value_ |-> value, target_ |-> value, calls |-> 0,
      down_multiplier_ |-> slide_multiplier(length, TRUE),
      up_multiplier_ |-> slide_multiplier(length, FALSE) ]

Max2(a, b) == IF a >= b THEN a ELSE b

Min2(a, b) == IF a <= b THEN a ELSE b

\* operator()(float value)
ramp_set(r, value) == [ r EXCEPT !.target_ = value ]

\* operator()() that does not hold the value at the target.
ramp_step_unclamped(r) ==
    LET v == IF r.target_ = r.value_ THEN r.value_
             ELSE IF r.target_ < r.value_ THEN Mul(r.value_, r.down_multiplier_)
             ELSE Mul(r.value_, r.up_multiplier_)
    IN  [ r EXCEPT !.value_ = v, !.calls = r.calls + 1 ]

\* operator()(): one step of the value towards the target.
ramp_step(r) ==
    LET v == IF r.target_ = r.value_ THEN r.value_
             ELSE IF r.target_ < r.value_
                  THEN Max2(Mul(r.value_, r.down_multiplier_), r.target_)
             ELSE Min2(Mul(r.value_, r.up_multiplier_), r.target_)
    IN  [ r EXCEPT !.value_ = v, !.calls = r.calls + 1 ]

\* volume_{0.000001f, 1.0f, 1.0f, 0.2f} and pan_{0.000001f, 0.5f, 1.0f, 0.01f}
\* of a new channel.
MixInit ==
    [ volume_ |-> RampInit(RampScale, 20), pan_ |-> RampInit(RampScale \div 2, 1),
      samples |-> 0 ]

\* The values controller_change is called with for the volume and the pan.
RampValues == { 0, 64, 120, 127 }

\* value / 127.0f
RampTarget(value) == (value * RampScale) \div 127

MixStart ==
    /\ mix = MixInit
    /\ mixPrev = MixInit
    /\ mixOp = "none"

MixParked == MixStart

MixOthers ==
    <<poolVars, envVars, vlqVars, playVars, clockVars, sinkVars, jobVars, audioVars,
      loadVars, ctlVars, envKeys, voxVars, waveVars>>

\* controller_change(volume, value)
MixVolume(value) ==
    /\ mix' = [ mix EXCEPT !.volume_ = ramp_set(mix.volume_, RampTarget(value)) ]
    /\ mixPrev' = mix
    /\ mixOp' = "volume"
    /\ UNCHANGED MixOthers

\* controller_change(pan, value)
MixPan(value) ==
    /\ mix' = [ mix EXCEPT !.pan_ = ramp_set(mix.pan_, RampTarget(value)) ]
    /\ mixPrev' = mix
    /\ mixOp' = "pan"
    /\ UNCHANGED MixOthers

\* simple_midi_channel::operator(): volume_() and, in panning_device's
\* operator(), pan_() are called once each.
MixSample ==
    /\ mix.samples < MaxRampSteps
    /\ mix' = [ volume_ |-> ramp_step(mix.volume_), pan_ |-> ramp_step(mix.pan_),
                samples |-> mix.samples + 1 ]
    /\ mixPrev' = mix
    /\ mixOp' = "sample"
    /\ UNCHANGED MixOthers

MoreParked == CtlParked /\ envKeys = 0 /\ VoxParked /\ MixParked /\ WaveParked

\* The pools a controller change meets: a new one, and one with a key down.
ControlPools == { << VoiceInit >>, note_on(<< VoiceInit >>, piano_key_A_4, 64) }

ControlStart ==
    /\ CtlParked
    /\ ndebug \in BOOLEAN
    /\ tracks = <<>>
    /\ vlq = VlqNone
    /\ voices \in ControlPools
    /\ held = {}
    /\ stole = FALSE
    /\ overfull = FALSE
    /\ offByZero = FALSE
    /\ now = 0

ControllerChange(id, value) ==
    /\ ctlFailure = "none"
    /\ LET r == controller_change(id, value, volume_target, pan_target)
       IN  /\ volume_target' = r.volume
           /\ pan_target' = r.pan
           /\ ctlFailure' = IF r.st = "ok" THEN "none" ELSE r.st
    /\ ctlLast' = [ id |-> id, value |-> value, volume |-> volume_target, pan |-> pan_target ]
    /\ UNCHANGED <<poolVars, vlqVars, envKeys, voxVars, mixVars, waveVars>>

-----------------------------------------------------------------------------
(* The simple_midi_channel of main.cpp driven by note_on and note_off.  Its  *)
(* note_off has an else branch that the one of the other file has not.      *)

\* The else branch of note_off: assert(max_polyphony == 1).
note_off_asserts(vs, key) == find_key(vs, key) = 0 /\ AssertFails(Len(vs) = 1)

ChannelStart ==
    /\ CtlParked
    /\ ndebug \in BOOLEAN
    /\ tracks = <<>>
    /\ vlq = VlqNone
    /\ PoolStart

ChannelNoteOff(key) ==
    /\ ctlFailure = "none"
    /\ IF note_off_asserts(voices, key)
       THEN ctlFailure' = "abort" /\ UNCHANGED <<voices, held>>
       ELSE ctlFailure' = "none" /\ voices' = note_off(voices, key) /\ held' = held \ {key}
    /\ UNCHANGED <<stole, overfull, offByZero, now>>
    /\ UNCHANGED <<volume_target, pan_target, ctlLast, vlqVars, envKeys, voxVars, mixVars, waveVars>>

ChannelNoteOn(key, vel) ==
    /\ ctlFailure = "none"
    /\ IF vel = 0 /\ note_off_asserts(voices, key)
       THEN ctlFailure' = "abort" /\ UNCHANGED poolVars
       ELSE ctlFailure' = "none" /\ NoteOn(key, vel)
    /\ UNCHANGED <<volume_target, pan_target, ctlLast, vlqVars, envKeys, voxVars, mixVars, waveVars>>

-----------------------------------------------------------------------------
(* Specifications. *)

PoolInit ==
    /\ PoolStart /\ EnvParked /\ VlqParked /\ PlayParked /\ ClockParked /\ SinkParked /\ JobsParked /\ AudioParked
    /\ LoadParked /\ MoreParked

PoolNext ==
    \/ /\ \E key \in Keys, vel \in Velocities : NoteOn(key, vel)
       /\ UNCHANGED <<envVars, vlqVars, playVars, clockVars, sinkVars, restVars>>
    \/ /\ \E key \in Keys : NoteOff(key)
       /\ UNCHANGED <<envVars, vlqVars, playVars, clockVars, sinkVars, restVars>>
    \/ /\ Render
       /\ UNCHANGED <<envVars, vlqVars, playVars, clockVars, sinkVars, restVars>>

SpecPool == PoolInit /\ [][PoolNext]_vars

EnvInit ==
    /\ EnvStart /\ PoolParked /\ VlqParked /\ PlayParked /\ ClockParked /\ SinkParked /\ JobsParked /\ AudioParked
    /\ LoadParked /\ MoreParked

EnvNext ==
    \/ EnvKeyOn /\ UNCHANGED <<poolVars, vlqVars, playVars, clockVars, sinkVars, restVars>>
    \/ EnvKeyOff /\ UNCHANGED <<poolVars, vlqVars, playVars, clockVars, sinkVars, restVars>>
    \/ EnvStep /\ UNCHANGED <<poolVars, vlqVars, playVars, clockVars, sinkVars, restVars>>

SpecEnv == EnvInit /\ [][EnvNext]_vars

EnvLiveNext == LiveKeyOn \/ LiveKeyOff \/ LiveStep

\* The audio callback asks for samples again and again: every voice's
\* envelope is stepped for as long as the program runs.
SpecEnvLive == EnvInit /\ [][EnvLiveNext]_vars /\ WF_vars(LiveStep)

VlqInit ==
    /\ VlqStart /\ PoolParked /\ EnvParked /\ PlayParked /\ ClockParked /\ SinkParked /\ JobsParked /\ AudioParked
    /\ LoadParked /\ MoreParked

VlqNext == ReadVarNum /\ UNCHANGED <<poolVars, envVars, playVars, clockVars, sinkVars, restVars>>

SpecVlq == VlqInit /\ [][VlqNext]_vars

DecodeInit ==
    /\ DecodeStart /\ PoolParked /\ EnvParked /\ ClockParked /\ SinkParked /\ JobsParked /\ AudioParked
    /\ LoadParked /\ MoreParked

DecodeNext == PlayDivision /\ UNCHANGED <<poolVars, envVars, clockVars, sinkVars, restVars>>

SpecDecode == DecodeInit /\ [][DecodeNext]_vars

CutInit ==
    /\ CutStart /\ PoolParked /\ EnvParked /\ ClockParked /\ SinkParked /\ JobsParked /\ AudioParked
    /\ LoadParked /\ MoreParked

KeysInit ==
    /\ KeysStart /\ PoolParked /\ EnvParked /\ ClockParked /\ SinkParked /\ JobsParked /\ AudioParked
    /\ LoadParked /\ MoreParked

\* The loop of player::impl::impl on one message with a key.
SpecKeys == KeysInit /\ [][DecodeNext]_vars

\* The loop of player::impl::impl on a track whose buffer ends early.
SpecCut == CutInit /\ [][DecodeNext]_vars

PlayerInit ==
    /\ PlayerStart /\ PoolParked /\ EnvParked /\ JobsParked /\ AudioParked
    /\ LoadParked /\ MoreParked

PlayerNext ==
    (\E us \in AdvanceUs : Advance(us)) /\ UNCHANGED <<poolVars, envVars, restVars>>

SpecPlayer == PlayerInit /\ [][PlayerNext]_vars

RouteInit ==
    /\ RouteStart /\ PoolParked /\ EnvParked /\ JobsParked /\ AudioParked
    /\ LoadParked /\ MoreParked

SpecRoute == RouteInit /\ [][PlayerNext]_vars

JobsInit ==
    /\ JobsStart
    /\ PoolParked /\ EnvParked /\ VlqParked /\ PlayParked /\ ClockParked /\ SinkParked
    /\ AudioParked /\ LoadParked /\ MoreParked

JobsOthers ==
    <<poolVars, envVars, vlqVars, playVars, clockVars, sinkVars, audioVars, loadVars,
      moreVars>>

JobsNext ==
    \/ (\E t \in Pushers : PushCall(t)) /\ UNCHANGED JobsOthers
    \/ (\E t \in Pushers : PushLock(t)) /\ UNCHANGED JobsOthers
    \/ (\E t \in Pushers : PushEnqueue(t)) /\ UNCHANGED JobsOthers
    \/ ExecuteAll /\ UNCHANGED JobsOthers
    \/ ExecLock /\ UNCHANGED JobsOthers
    \/ ExecTake /\ UNCHANGED JobsOthers
    \/ JobStart /\ UNCHANGED JobsOthers
    \/ JobEnd /\ UNCHANGED JobsOthers

SpecJobs == JobsInit /\ [][JobsNext]_vars

AudioInit ==
    /\ JobsStart /\ AudioStart
    /\ PoolParked /\ EnvParked /\ VlqParked /\ PlayParked /\ ClockParked /\ SinkParked
    /\ LoadParked /\ MoreParked

AudioOthers ==
    <<poolVars, envVars, vlqVars, playVars, clockVars, sinkVars, loadVars, moreVars>>

AudioNext ==
    \/ TakeBuffer /\ UNCHANGED <<AudioOthers, jobVars>>
    \/ BeginCallback /\ UNCHANGED <<AudioOthers, jobVars>>
    \/ RenderBegin /\ UNCHANGED <<AudioOthers, jobVars>>
    \/ RenderEnd /\ UNCHANGED <<AudioOthers, jobVars>>
    \/ OnOutLock /\ UNCHANGED <<AudioOthers, jobVars>>
    \/ OnOutDrain /\ UNCHANGED AudioOthers
    \/ ExecLock /\ UNCHANGED <<AudioOthers, audioVars>>
    \/ ExecTake /\ UNCHANGED <<AudioOthers, audioVars>>
    \/ JobStartInEngine /\ UNCHANGED AudioOthers
    \/ JobEndInEngine /\ UNCHANGED AudioOthers
    \/ OnOutReturn /\ UNCHANGED <<AudioOthers, jobVars>>
    \/ WriteBuffer /\ UNCHANGED <<AudioOthers, jobVars>>
    \/ s_callback /\ UNCHANGED <<AudioOthers, jobVars>>
    \/ IdleLock /\ UNCHANGED <<AudioOthers, jobVars>>
    \/ IdleUnlock /\ UNCHANGED <<AudioOthers, jobVars>>
    \/ KeyListener /\ UNCHANGED <<AudioOthers, audioVars>>
    \/ PushLock("ui") /\ UNCHANGED <<AudioOthers, audioVars>>
    \/ PushEnqueue("ui") /\ UNCHANGED <<AudioOthers, audioVars>>
    \/ MainLoopReturns /\ UNCHANGED <<AudioOthers, jobVars>>
    \/ SetExiting /\ UNCHANGED <<AudioOthers, jobVars>>
    \/ NotifyAndReset /\ UNCHANGED <<AudioOthers, jobVars>>
    \/ Join /\ UNCHANGED <<AudioOthers, jobVars>>
    \/ Destroy /\ UNCHANGED <<AudioOthers, jobVars>>

SpecAudio == AudioInit /\ [][AudioNext]_vars

LoadInit ==
    /\ LoadStart
    /\ PoolParked /\ EnvParked /\ ClockParked /\ SinkParked /\ JobsParked /\ AudioParked
    /\ MoreParked

LoadOthers == <<poolVars, envVars, clockVars, sinkVars, jobVars, audioVars, moreVars>>

LoadNext ==
    \/ LoadHeader /\ UNCHANGED LoadOthers
    \/ LoadTrack /\ UNCHANGED LoadOthers
    \/ LoadDivision /\ UNCHANGED LoadOthers

SpecLoad == LoadInit /\ [][LoadNext]_vars

\* The constructor runs on: it has a next step whenever it has neither
\* returned nor failed, and that step is taken.  (This is weak fairness of
\* LoadNext, with its enabling condition written out.)
SpecLoadLive ==
    /\ LoadInit /\ [][LoadNext]_vars
    /\ ([]<>(loadPc \in {"loaded", "failed"}) \/ []<><<LoadNext>>_vars)

ControlInit ==
    /\ ControlStart
    /\ EnvParked /\ PlayParked /\ ClockParked /\ SinkParked /\ JobsParked /\ AudioParked
    /\ LoadParked /\ envKeys = 0 /\ VoxParked /\ MixParked /\ WaveParked

ControlNext ==
    /\ \E id \in ControllerIds, value \in ControllerValues : ControllerChange(id, value)
    /\ UNCHANGED <<envVars, playVars, clockVars, sinkVars, jobVars, audioVars, loadVars>>

SpecControl == ControlInit /\ [][ControlNext]_vars

WaveInit ==
    /\ WaveStart
    /\ PoolParked /\ EnvParked /\ PlayParked /\ ClockParked /\ SinkParked /\ JobsParked
    /\ LoadParked /\ CtlParked /\ envKeys = 0 /\ VoxParked /\ MixParked

WaveNext ==
    \/ WaveTake
    \/ WaveCallback
    \/ WaveCallbackReturns
    \/ WaveWrite
    \/ WaveDone
    \/ WaveSetExiting
    \/ WaveReset
    \/ WaveResetReturns
    \/ WaveJoin
    \/ WaveDestroy

SpecWave == WaveInit /\ [][WaveNext]_vars

ChannelInit ==
    /\ ChannelStart
    /\ EnvParked /\ PlayParked /\ ClockParked /\ SinkParked /\ JobsParked /\ AudioParked
    /\ LoadParked /\ envKeys = 0 /\ VoxParked /\ MixParked /\ WaveParked

ChannelNext ==
    \/ /\ \E key \in Keys, vel \in Velocities : ChannelNoteOn(key, vel)
       /\ UNCHANGED <<envVars, playVars, clockVars, sinkVars, jobVars, audioVars, loadVars>>
    \/ /\ \E key \in Keys : ChannelNoteOff(key)
       /\ UNCHANGED <<envVars, playVars, clockVars, sinkVars, jobVars, audioVars, loadVars>>

SpecChannel == ChannelInit /\ [][ChannelNext]_vars

VoxInitial ==
    /\ VoxStart /\ CtlParked /\ envKeys = 0 /\ MixParked /\ WaveParked
    /\ PoolParked /\ EnvParked /\ VlqParked /\ PlayParked /\ ClockParked /\ SinkParked
    /\ JobsParked /\ AudioParked /\ LoadParked

VoxNext ==
    \/ \E key \in Keys, vel \in Velocities \ {0} : VoxKeyOn(key, vel)
    \/ VoxKeyOff
    \/ VoxRender

SpecVoice == VoxInitial /\ [][VoxNext]_vars

MixInitial ==
    /\ MixStart /\ CtlParked /\ envKeys = 0 /\ VoxParked /\ WaveParked
    /\ PoolParked /\ EnvParked /\ VlqParked /\ PlayParked /\ ClockParked /\ SinkParked
    /\ JobsParked /\ AudioParked /\ LoadParked

MixNext ==
    \/ \E value \in RampValues : MixVolume(value)
    \/ \E value \in RampValues : MixPan(value)
    \/ MixSample

SpecMix == MixInitial /\ [][MixNext]_vars

-----------------------------------------------------------------------------
(* Claims about the voice pool. *)

Bound(v, key) == v.key_ = key /\ active(v)

BoundVoices(vs, key) == { i \in 1..Len(vs) : Bound(vs[i], key) }

NoSharedKey(vs) ==
    \A i, j \in 1..Len(vs) :
        (i # j /\ vs[i].key_ # piano_key_OFF) => vs[i].key_ # vs[j].key_

\* C1: after any sequence of note_on, note_off and render steps, no two
\* voices of the pool hold the same key (other than OFF).
C1_OneVoicePerKey == NoSharedKey(voices)

\* Two keys sound on two voices after a third key's voice was taken over and
\* samples were rendered.
C1_Witness ==
    /\ Len(voices) = 2 /\ stole /\ now > 0
    /\ active(voices[1]) /\ active(voices[2])
    /\ voices[1].key_ # voices[2].key_

HeldKeysBound ==
    /\ \A key \in held : Cardinality(BoundVoices(voices, key)) = 1
    /\ NoSharedKey(voices)

NoteOnPost(vs, key, vel) ==
    LET new == note_on(vs, key, vel)
        v   == note_on_voice(vs, key)
    IN  /\ Len(new) = Len(vs)
        \* key_on's and set_multiplier's assertions
        /\ key # piano_key_OFF /\ vel # 0 /\ set_multiplier_ok(vs[v].envelope_)
        /\ new[v].key_ = key
        /\ new[v].vel_ = vel
        /\ new[v].envelope_.state = "state_attack"
        /\ new[v].samples_played_ = 0
        /\ \A j \in 1..Len(vs) : j # v => new[j] = vs[j]
        /\ BoundVoices(new, key) = {v}
        /\ Len(vs) = 1 => { i \in 1..Len(new) : active(new[i]) } = {1}

\* C3: note_on(K, V) with V > 0 succeeds in every pool state, a full pool
\* included: it acts on exactly one voice, which afterwards is bound to K, in
\* Attack, with its sample counter at 0, and leaves every other voice as it
\* was; in a pool of one voice that voice is then the only active one.
C3_NoteOnTotal ==
    \A key \in Keys, vel \in Velocities \ {0} : NoteOnPost(voices, key, vel)

\* Pool of one voice: a second key was pressed while the first was still held,
\* and the one voice now plays the second key from the start.
C3_Witness ==
    /\ Len(voices) = 1 /\ stole
    /\ Cardinality(held) = 2
    /\ active(voices[1]) /\ voices[1].key_ \in held
    /\ voices[1].envelope_.state = "state_attack"
    /\ voices[1].samples_played_ = 0 /\ now > 0

Triggered(old, new) ==
    \/ new.key_ # old.key_
    \/ new.vel_ # old.vel_
    \/ new.samples_played_ # old.samples_played_
    \/ new.envelope_.state = "state_attack" /\ old.envelope_.state # "state_attack"

\* C5: note_on(K, 0) leads to the same pool as note_off(K), and allocates,
\* retriggers or steals no voice.
C5_ZeroVelocityIsNoteOff ==
    \A key \in Keys :
        LET new == note_on(voices, key, 0)
        IN  /\ new = note_off(voices, key)
            /\ \A i \in 1..Len(voices) : ~Triggered(voices[i], new[i])

\* A note_on with velocity 0 has put a sounding voice into Release.
C5_Witness ==
    /\ offByZero
    /\ \E i \in 1..Len(voices) :
          voices[i].envelope_.state = "state_release" /\ voices[i].key_ \notin held

-----------------------------------------------------------------------------
(* Claims about the envelope. *)

\* C4: key_off on an Idle envelope changes nothing (state, level and
\* multiplier stay as they were), the first time and every time after.
C4_KeyOffIdleNoOp ==
    /\ (envOp = "key_off" /\ is_off(envPrev)) => env = envPrev
    /\ is_off(env) => envelope_key_off(envelope_key_off(env)) = env

\* key_off has just been given to an envelope that had run through a whole
\* note and come back to Idle, its multiplier still that of the release.
C4_Witness ==
    /\ envOp = "key_off" /\ is_off(envPrev) /\ is_off(env)
    /\ envPrev.multiplier # EnvelopeInit.multiplier
    /\ envSteps > 0

-----------------------------------------------------------------------------
(* Claims about the decoder. *)

\* The index of the first byte of data whose top bit is clear, 0 if none.
FirstFinal(data) ==
    IF \E i \in 1..Len(data) : data[i] < 128
    THEN CHOOSE i \in 1..Len(data) : data[i] < 128 /\ \A j \in 1..(i - 1) : data[j] >= 128
    ELSE 0

Pow128(k) == CASE k = 0 -> 1 [] k = 1 -> 128 [] k = 2 -> 16384 [] k = 3 -> 2097152

\* The value of the first k bytes read as groups of 7 bits, first group
\* most significant.
RECURSIVE GroupsValue(_, _, _)
GroupsValue(data, k, i) ==
    IF i > k THEN 0
    ELSE (data[i] % 128) * Pow128(k - i) + GroupsValue(data, k, i + 1)

VlqExample(data, val) ==
    (Len(tracks[1].data_) >= Len(data) /\ SubSeq(tracks[1].data_, 1, Len(data)) = data)
        => (vlq.st = "ok" /\ vlq.val = val /\ tracks[1].pos_ = Len(data))

\* C9: a quantity that ends within 4 bytes decodes to the value of its 7-bit
\* groups, first group most significant, and the cursor stops just after the
\* first byte whose top bit is clear; 00 is 0, 7F is 127, 87 68 is 1000,
\* FF 7F is 16383, BD 84 40 is 1000000 and FF FF FF 7F is 0x0FFFFFFF.
C9_VarNumDecode ==
    vlq.st # "none" =>
        LET data == tracks[1].data_
            k    == FirstFinal(data)
        IN  /\ (k >= 1 /\ k <= 4) =>
                  /\ vlq.st = "ok"
                  /\ vlq.val = GroupsValue(data, k, 1)
                  /\ tracks[1].pos_ = k
            /\ VlqExample(<<0>>, 0)
            /\ VlqExample(<<127>>, 127)
            /\ VlqExample(<<135, 104>>, 1000)
            /\ VlqExample(<<255, 127>>, 16383)
            /\ VlqExample(<<189, 132, 64>>, 1000000)
            /\ VlqExample(<<255, 255, 255, 127>>, 268435455)

\* The longest quantity has been decoded.
C9_Witness ==
    /\ vlq.st = "ok" /\ vlq.val = 268435455
    /\ tracks[1].data_ = <<255, 255, 255, 127>> /\ tracks[1].pos_ = 4

\* The channel events of a script as the file format reads them: each with
\* the tick that is the sum of the delta times up to it, its own status byte
\* or else the status of the channel event before it, and its data bytes.
RECURSIVE Expected(_, _, _)
Expected(sc, tick, rs) ==
    IF sc = <<>> THEN <<>>
    ELSE LET e  == Head(sc)
             at == tick + e.delta
         IN  IF e.meta THEN Expected(Tail(sc), at, rs)
             ELSE IF e.status # 0
                  THEN << [ division |-> at, status |-> e.status, data |-> Tail(e.body) ] >>
                       \o Expected(Tail(sc), at, e.status)
                  ELSE << [ division |-> at, status |-> rs, data |-> e.body ] >>
                       \o Expected(Tail(sc), at, rs)

DataCount(status) == IF status \div 16 = 12 THEN 1 ELSE 2

\* Every channel event of the script has a status from note off (0x8n) to
\* program change (0xCn) and the data bytes that status takes.
WellFormed(sc) ==
    \A i \in 1..Len(Expected(sc, 0, 0)) :
        LET x == Expected(sc, 0, 0)[i]
        IN  /\ x.status \div 16 \in 8..12
            /\ Len(x.data) = DataCount(x.status)

KindOf(status) ==
    CASE status \div 16 = 8 -> "note_off"
      [] status \div 16 = 9 -> "note_on"
      [] status \div 16 = 10 -> "polyphonic_key_pressure"
      [] status \div 16 = 11 -> "controller_change"
      [] status \div 16 = 12 -> "program_change"

IsChannelEvent(e) == e.channel >= 0

ChannelEventsOf(n) == SelectSeq(dispatched, LAMBDA e : IsChannelEvent(e) /\ e.track = n)

Ticks(evs) == [ i \in 1..Len(evs) |-> evs[i].division ]

Due(sc) == SelectSeq(Expected(sc, 0, 0), LAMBDA x : x.division < division)

NoteOnThenNoteOff == << Ev(0, <<0>>, 144, <<144, 60, 64>>, FALSE),
                        Ev(10, <<10>>, 128, <<128, 60, 0>>, FALSE) >>

What(evs) == [ i \in 1..Len(evs) |->
                 [ kind |-> evs[i].kind, channel |-> evs[i].channel, data |-> evs[i].data ] ]

WhatExpected(xs) == [ i \in 1..Len(xs) |->
                        [ kind |-> KindOf(xs[i].status), channel |-> xs[i].status % 16,
                          data |-> xs[i].data ] ]

TwoNoteOns == << Ev(0, <<0>>, 144, <<144, 60, 64>>, FALSE),
                 Ev(10, <<10>>, 0, <<62, 80>>, FALSE) >>

-----------------------------------------------------------------------------
(* Claims about the sequencer's clock. *)

IsSetTempo(e) == e.kind = "meta" /\ e.data[1] = 81

SetTempos == SelectSeq(dispatched, IsSetTempo)

\* The tempo has had one value for every tick length charged so far: every
\* Set Tempo dispatched was dispatched in tick 0.
TempoConstant == \A i \in 1..Len(SetTempos) : SetTempos[i].division = 0

QuarterNotes == elapsed \div microsecondsPerQuarterNote

\* The calls of advance so far add up to N quarter notes, N at least 1, at
\* one tempo.
WholeQuarterNotes ==
    /\ failure = "none"
    /\ advances > 0
    /\ TempoConstant
    /\ microsecondsPerQuarterNote > 0
    /\ elapsed % microsecondsPerQuarterNote = 0

WithinOneTick ==
    /\ division >= QuarterNotes * midi_divisions - 1
    /\ division <= QuarterNotes * midi_divisions + 1

\* C7 as stated: for every tempo and every number of ticks per quarter
\* note, after calls of advance that add up to N quarter notes the tick
\* count is within one tick of N times the ticks per quarter note.
C7_Original == WholeQuarterNotes => WithinOneTick

\* C7: when the ticks per quarter note divide the tempo, so that the tick
\* length is exact, calls of advance that add up to N quarter notes leave
\* the tick count within one tick of N times the ticks per quarter note.
C7_DriftBound ==
    (WholeQuarterNotes /\ microsecondsPerQuarterNote % midi_divisions = 0) => WithinOneTick

\* Three quarter notes at the default tempo have been played.
C7_Witness ==
    /\ WholeQuarterNotes
    /\ microsecondsPerQuarterNote = default_tempo
    /\ midi_divisions = 4
    /\ QuarterNotes = 3
    /\ division = 13

\* The payload of a dispatched Set Tempo as a 24 bit number.
TempoOf(e) == e.data[2] * 65536 + e.data[3] * 256 + e.data[4]

\* A Set Tempo is among the events this step dispatched.
SetTempoDispatched ==
    \E i \in (Len(dispatched) + 1)..Len(dispatched') : IsSetTempo(dispatched'[i])

\* C8: the tempo is 500000 as long as no Set Tempo has been dispatched, and
\* a step changes the tempo only when it dispatches a Set Tempo (it is then
\* that of the last one dispatched); no step changes the ticks per quarter
\* note.
C8_TempoOnlyBySetTempo ==
    /\ [](SetTempos = <<>> => microsecondsPerQuarterNote = default_tempo)
    /\ [](SetTempos # <<>> =>
             microsecondsPerQuarterNote = TempoOf(SetTempos[Len(SetTempos)]))
    /\ [][ /\ midi_divisions' = midi_divisions
           /\ microsecondsPerQuarterNote' # microsecondsPerQuarterNote => SetTempoDispatched
         ]_vars

\* A note on and a time signature were dispatched at the default tempo, and
\* a Set Tempo after them.
C8_Witness ==
    /\ Len(dispatched) = 3
    /\ dispatched[1].kind = "note_on"
    /\ dispatched[2].kind = "meta" /\ dispatched[2].data[1] = 88
    /\ IsSetTempo(dispatched[3]) /\ dispatched[3].division = 4
    /\ microsecondsPerQuarterNote = 1
    /\ advances >= 2

-----------------------------------------------------------------------------
(* Claims about the sinks. *)

DeliveredOf(n) == SelectSeq(delivered, LAMBDA x : x.event.track = n)

\* What the sinks are to receive for the channel events xs of a track: the
\* events on a channel with a sink, each at the sink of the channel that
\* is the low nibble of its status byte.
ToSinks(xs) ==
    LET heard == SelectSeq(xs, LAMBDA x : registered[x.status % 16] # 0)
    IN  [ i \in 1..Len(heard) |->
            [ sink |-> registered[heard[i].status % 16],
              kind |-> KindOf(heard[i].status), data |-> heard[i].data ] ]

Received(ds) ==
    [ i \in 1..Len(ds) |->
        [ sink |-> ds[i].sink, kind |-> ds[i].event.kind, data |-> ds[i].event.data ] ]

-----------------------------------------------------------------------------
(* Claims about the job queue. *)

NoDuplicates(xs) == \A a, b \in 1..Len(xs) : xs[a] = xs[b] => a = b

IsPrefix(xs, ys) == Len(xs) <= Len(ys) /\ \A i \in 1..Len(xs) : xs[i] = ys[i]

\* C12: in every interleaving of push calls of other threads with
\* execute_all, no job is started twice, the jobs are started in the order
\* in which they entered the queue, and no job is started while another
\* job of the queue has not returned.
C12_EachJobOnceInOrder ==
    /\ NoDuplicates(started)
    /\ IsPrefix(started, pushed)
    /\ Cardinality(running) <= 1
    /\ execPc = "call" => running = {}

\* Two threads were in push at once and the later call entered the queue
\* first; the third job is pushed while the second is running.
C12_Witness ==
    /\ pushed = <<2, 1>>
    /\ started = <<2, 1>>
    /\ running = { 1 }
    /\ \E t \in Pushers : pushPc[t] = [ at |-> "locked", job |-> 3 ]

-----------------------------------------------------------------------------
(* Claims about the audio thread and main. *)

Rendering == [ thread |-> "audio", use |-> "render" ] \in engine

\* C13: a job never runs while a frame is rendered or while another thread
\* is in the voice engine; in every callback invocation execute_all is
\* called once, by the audio thread and after the last frame of the block;
\* and the UI thread is never inside the voice engine, all its key
\* listener does is push.
C13_JobsDrainedAfterRender ==
    /\ running # {} => ~Rendering /\ audioPc = "drain"
    /\ Cardinality(engine) <= 1
    /\ \A e \in engine : e.thread = "audio"
    /\ execPc # "idle" => audioPc = "drain" /\ frame = FramesPerBlock
    /\ drains <= 1
    /\ audioPc = "drain" => drains = 1
    /\ audioPc = "write" => drains = 1 /\ frame = FramesPerBlock
    /\ audioPc \in { "mix", "frame", "out" } => drains = 0

\* The first job runs in the second block, after its last frame, while the
\* UI thread is pushing the next job.
C13_Witness ==
    /\ running = { 1 }
    /\ engine = { [ thread |-> "audio", use |-> "job" ] }
    /\ frame = FramesPerBlock /\ drains = 1
    /\ playing + num_buffers_to_play_ = 1
    /\ pushPc["ui"].at = "call"

Joined == mainPc \in { "joined", "destroyed" }

\* The statement of C14 as it stands: with exiting_ set no callback
\* invocation begins, ~wavedev returns only when the audio thread has left,
\* and nothing is destroyed before that.
C14_Original ==
    /\ lateBegins = 0
    /\ Joined => audioPc = "exited"
    /\ destroyed # <<>> => Joined

\* C14: with exiting_ set the audio thread takes no buffer any more, so
\* that at most one callback invocation begins after it, the one whose
\* buffer was taken before; ~wavedev returns only when the audio thread has
\* left double_buffer_thread; and the job queue, the channel and the
\* player are destroyed only after that.
C14_TeardownJoinsFirst ==
    /\ [](lateBegins <= 1)
    /\ [][exiting_ /\ audioPc = "wait" => audioPc' \in { "wait", "exited" }]_vars
    /\ [][lateBegins' # lateBegins => exiting_ /\ audioPc = "taken"]_vars
    /\ [](Joined => audioPc = "exited" /\ engine = {} /\ running = {})
    /\ [](destroyed # <<>> => Joined)

\* exiting_ was set between the taking of a buffer and the call of the
\* callback, the invocation ran a job, and everything was destroyed after
\* the thread had left.
C14_Witness ==
    /\ lateBegins = 1
    /\ started = <<1>>
    /\ playing = 2
    /\ audioPc = "exited"
    /\ destroyed = DestroyOrder

-----------------------------------------------------------------------------
(* Claims about loading. *)

\* The file ends before the chunks its header announces.
Truncated == Len(file) < Len(FileBytes(made))

\* The file has one of the conditions that are fatal.
Fatal == made.flaw # "none" \/ Truncated

\* The constructor has returned, thrown, or the process was stopped.
Finished == loadPc \in { "loaded", "failed" }

\* The calls made on the visitor (the lines print_dev writes for the two
\* cases that have no call are left out).
VisitorCalls ==
    SelectSeq(dispatched,
              LAMBDA e : e.kind \notin { "unsupported_system_event", "unhandled_midi_message" })

\* C15: when the file has a fatal condition, the load does not succeed, it
\* ends by an exception that reaches the caller, and no sink is called.
C15_FatalReachesCaller ==
    Fatal =>
        /\ loadPc # "loaded"
        /\ Finished => failure = "throw"
        /\ delivered = <<>>

\* C16: tracks are read and the file is loaded only when the header chunk
\* has tag MThd, length 6, format 1 and a division with the top bit clear;
\* with any other header the load ends by an exception and no byte after
\* the header chunk is read.
C16_HeaderChecked ==
    Len(file) >= 14 =>
        LET good == /\ made.type = header_chunk_type /\ made.length = 6
                    /\ made.format = 1 /\ made.divisions < 32768
        IN  /\ loadPc \in { "tracks", "divisions", "loaded" } => good
            /\ ~good => /\ in_.pos <= 14 /\ tracks = <<>>
                        /\ Finished => failure = "throw"

\* C17: a file that is cut short (and has no other flaw) is not loaded, the
\* load ends by an exception, and no track is accepted with bytes that are
\* not in the file.
C17_TruncatedStreamFatal ==
    Truncated /\ made.flaw = "none" =>
        /\ loadPc # "loaded"
        /\ Finished => failure = "throw"
        /\ padded = 0

\* C18: when the first delta time of the track runs to a fifth byte, the
\* load fails, no value is taken for it and nothing after it is decoded.
C18_LongVlqFatal ==
    made.flaw = "vlq" =>
        /\ loadPc # "loaded"
        /\ dispatched = <<>>
        /\ \A i \in 1..Len(tracks) : tracks[i].pos_ <= 4 /\ tracks[i].count_down_ = -1

\* C19: when the note on that starts the track has a data byte of 200, the
\* load fails, the note on is not handed on and nothing after it is
\* decoded.
C19_DataByteFatal ==
    made.flaw = "data_byte" =>
        /\ loadPc # "loaded"
        /\ VisitorCalls = <<>>
        /\ \A i \in 1..Len(tracks) : tracks[i].pos_ <= 4

\* C20: when the track starts with status 0xF0, the load fails, nothing is
\* handed on and no byte after the status is decoded.
C20_SystemEventFatal ==
    made.flaw = "sys_event" =>
        /\ loadPc # "loaded"
        /\ VisitorCalls = <<>>
        /\ \A i \in 1..Len(tracks) : tracks[i].pos_ <= 2

\* C21: a track that starts with data bytes, so that no status was ever
\* set, is not loaded and nothing of it is handed on; a track whose status
\* is 0xE1, which is inside 0x80 to 0xEF, is loaded and its event handed
\* on.
C21_RunningStatusRange ==
    /\ made.flaw = "running_status" =>
           loadPc # "loaded" /\ VisitorCalls = <<>>
    /\ made.payloads = << PitchBendTrack >> /\ Finished =>
           /\ loadPc = "loaded"
           /\ Len(VisitorCalls) = 2
           /\ VisitorCalls[1].kind = "pitch_bend" /\ VisitorCalls[1].channel = 1

\* The meta events handed on so far.
MetaEvents == SelectSeq(dispatched, LAMBDA e : e.kind = "meta")

\* C22: a file whose first meta event is an End of Track, Set Tempo, Time
\* Signature or Key Signature of the wrong length is not loaded: the load
\* ends by an exception that leaves the constructor, no meta event is
\* handed on (so no tempo is taken from it), and what comes after it in
\* the track is not decoded.
C22_MetaLengthFatal ==
    made.flaw = "meta_length" =>
        /\ loadPc # "loaded"
        /\ Finished => failure = "throw"
        /\ MetaEvents = <<>>
        /\ \A e \in 1..Len(dispatched) :
               dispatched[e].kind = "note_on" /\ dispatched[e].data = << 60, 64 >>
        /\ Len(dispatched) <= 1

\* The load of the file with a Set Tempo of length 4 has ended by an
\* exception after the note on before the Set Tempo, in the debug build.
C22_Witness ==
    /\ made.flaw = "meta_length" /\ Len(made.payloads[1]) = 20
    /\ ~ndebug
    /\ loadPc = "failed" /\ failure = "throw"
    /\ Len(dispatched) = 1
    /\ tracks[1].pos_ = 8

\* C23: the file whose track starts with a text event (meta type 0x01, not
\* one of the recognized types) meets no error: the two bytes of its
\* payload are skipped, the note on after it is handed on and the file is
\* loaded.
C23_UnknownMetaSkipped ==
    made.payloads = << UnknownMetaTrack >> =>
        /\ failure = "none"
        /\ Finished =>
               /\ loadPc = "loaded"
               /\ tracks[1].pos_ = Len(UnknownMetaTrack)
               /\ \E e \in 1..Len(dispatched) :
                      dispatched[e].kind = "note_on" /\ dispatched[e].data = << 60, 64 >>

-----------------------------------------------------------------------------
(* Claims about the controllers. *)

\* C24: every call of controller_change with an id and a value from 0 to
\* 127 returns; after a call with id 7 the volume target is value/127 and
\* the pan target is as before, after a call with id 10 the pan target is
\* value/127 and the volume target is as before, after a call with any
\* other id both are as before; and the voices are as they were.
C24_ControllersTotal ==
    /\ ctlFailure = "none"
    /\ voices \in ControlPools
    /\ ctlLast.id = controller_volume =>
           volume_target * 127 = ctlLast.value * TargetScale /\ pan_target = ctlLast.pan
    /\ ctlLast.id = controller_pan =>
           pan_target * 127 = ctlLast.value * TargetScale /\ volume_target = ctlLast.volume
    /\ ctlLast.id \notin { controller_volume, controller_pan } =>
           volume_target = ctlLast.volume /\ pan_target = ctlLast.pan

-----------------------------------------------------------------------------
(* Claims about the choice of a voice. *)

Lowest(S) == CHOOSE i \in S : \A j \in S : i <= j

BoundTo(vs, key) == { i \in 1..Len(vs) : vs[i].key_ = key }

IdleVoices(vs) == { i \in 1..Len(vs) : vs[i].envelope_.state = "state_off" }

Longest(vs) ==
    { i \in 1..Len(vs) : \A j \in 1..Len(vs) : vs[j].samples_played_ <= vs[i].samples_played_ }

\* The voice the three steps name.
ChosenVoice(vs, key) ==
    IF BoundTo(vs, key) # {} THEN Lowest(BoundTo(vs, key))
    ELSE IF IdleVoices(vs) # {} THEN Lowest(IdleVoices(vs))
    ELSE Lowest(Longest(vs))

\* C25: note_on(K, V) with V > 0 triggers the voice bound to K if there is
\* one, else the lowest-index voice whose envelope is Idle, else the voice
\* with the greatest count of samples since its trigger, the lowest-index
\* one among equals; the other voices are left as they were.
C25_VoiceChoice ==
    \A key \in Keys, vel \in Velocities \ {0} :
        LET c == ChosenVoice(voices, key)
        IN  note_on(voices, key, vel) = [ voices EXCEPT ![c] = voice_key_on(voices[c], key, vel) ]

\* A full pool after a voice was taken over and samples were rendered: both
\* voices sound with equal counts, and a key that is bound to neither can be
\* pressed.
C25_Witness ==
    /\ Len(voices) = 2 /\ stole /\ now > 0
    /\ IdleVoices(voices) = {}
    /\ voices[1].samples_played_ = voices[2].samples_played_
    /\ \E key \in Keys : BoundTo(voices, key) = {}

-----------------------------------------------------------------------------
(* Claims about the states of the envelope. *)

\* The level a sample step compares: the old level times the multiplier.
Stepped == Mul(envPrev.level, envPrev.multiplier)

\* The state changes a sample step may make.
StepMoves ==
    \/ env.state = envPrev.state
    \/ /\ envPrev.state = "state_attack" /\ env.state = "state_decay"
       /\ Stepped >= peak_level
    \/ /\ envPrev.state = "state_decay" /\ env.state = "state_sustain"
       /\ Stepped <= sustain_level
    \/ /\ envPrev.state = "state_release" /\ env.state = "state_off"
       /\ Stepped <= min_level

\* C26: the envelope starts Idle; key_on leaves it in Attack whatever the
\* state was; key_off leaves it in Release if it was not Idle and Idle if it
\* was; a sample step changes the state only from Attack to Decay with the
\* level at or above the peak, from Decay to Sustain with the level at or
\* below the sustain level, and from Release to Idle with the level at or
\* below the floor.
C26_EnvelopeStates ==
    /\ envOp = "none" => env.state = "state_off"
    /\ envOp = "key_on" => env.state = "state_attack"
    /\ envOp = "key_off" =>
           env.state = IF envPrev.state = "state_off" THEN "state_off" ELSE "state_release"
    /\ envOp = "step" => StepMoves

\* A sample step has taken the envelope from Decay to Sustain.
C26_Witness ==
    /\ envOp = "step"
    /\ envPrev.state = "state_decay" /\ env.state = "state_sustain"
    /\ Stepped <= sustain_level

-----------------------------------------------------------------------------
(* Claims about the end of a release. *)

\* C27: an envelope in Release, from whatever state and level key_off took
\* it there, is Idle after finitely many sample steps unless key_on comes
\* first; and an Idle envelope is left Idle by everything but key_on.
C27_ReleaseEnds ==
    /\ (env.state = "state_release") ~> (env.state = "state_off" \/ envOp = "key_on")
    /\ [][env.state = "state_off" => (env'.state = "state_off" \/ envOp' = "key_on")]_vars

\* Released from the peak, the envelope has gone Idle in a sample step; the
\* steps in Release were more than one.
C27_Witness ==
    /\ envOp = "step"
    /\ envPrev.state = "state_release" /\ env.state = "state_off"
    /\ envPrev.level > min_level /\ envPrev.level * 100 < peak_level

-----------------------------------------------------------------------------
(* Claims about one rendered sample of a voice. *)

\* C28: operator() of a voice whose envelope is Idle returns 0 and leaves
\* the phase of the oscillator, the history of the filter, the state and the
\* level of the envelope and the key as they were; the operator() that takes
\* the envelope from Release to Idle leaves the phase of the oscillator at 0.
C28_IdleVoiceSilent ==
    voxOp = "render" =>
        /\ voxPrev.envelope_.state = "state_off" =>
               /\ voxOut = 0
               /\ vox.osc_.t_ = voxPrev.osc_.t_
               /\ vox.filter_ = voxPrev.filter_
               /\ vox.envelope_.state = voxPrev.envelope_.state
               /\ vox.envelope_.level = voxPrev.envelope_.level
               /\ vox.key_ = voxPrev.key_
        /\ voxPrev.envelope_.state = "state_release" /\ vox.envelope_.state = "state_off" =>
               vox.osc_.t_ = 0

\* A voice that has sounded, has been released and has gone Idle is rendered
\* once more: its key is bound and its filter remembers the sound.
C28_Witness ==
    /\ voxOp = "render"
    /\ voxPrev.envelope_.state = "state_off" /\ voxPrev.key_ # piano_key_OFF
    /\ voxPrev.filter_.old_out_1 # 0 /\ voxPrev.osc_.freq_ # 0
    /\ voxOut = 0

-----------------------------------------------------------------------------
(* Claims about the order of the events of one division. *)

\* The events of the file of FirstOfTwo and SecondOfTwo, in the order of the
\* claim: by division, then by track, then by place in the track.
Brief(e) == << e.division, e.track, e.kind, e.data >>

TwoTrackOrder ==
    << << 0, 0, "note_on", << 60, 64 >> >>,
       << 0, 0, "note_on", << 62, 64 >> >>,
       << 0, 1, "note_on", << 60, 64 >> >>,
       << 2, 0, "note_off", << 60, 0 >> >>,
       << 2, 0, "meta", << 47 >> >>,
       << 2, 1, "note_off", << 60, 0 >> >>,
       << 2, 1, "meta", << 47 >> >> >>

DueBefore(d) == { k \in 1..Len(TwoTrackOrder) : TwoTrackOrder[k][1] < d }

\* C29: the events handed on are in the order of their divisions and,
\* within a division, of their tracks; the events of one track in one
\* division are in the order of the track's bytes; and when the division
\* counter has been incremented, every event of the divisions below it has
\* been handed on and no other (a division that ends in an error does not
\* increment the counter).
C29_TickOrder ==
    /\ \A a, b \in 1..Len(dispatched) :
           a < b => \/ dispatched[a].division < dispatched[b].division
                    \/ /\ dispatched[a].division = dispatched[b].division
                       /\ dispatched[a].track <= dispatched[b].track
    /\ failure = "none" => \A a \in 1..Len(dispatched) : dispatched[a].division < division
    /\ made.payloads = << FirstOfTwo, SecondOfTwo >> =>
           /\ Len(dispatched) = Cardinality(DueBefore(division))
           /\ \A k \in 1..Len(dispatched) : Brief(dispatched[k]) = TwoTrackOrder[k]

\* The file of two tracks is loaded: the seven events have been handed on.
C29_Witness ==
    /\ made.payloads = << FirstOfTwo, SecondOfTwo >>
    /\ loadPc = "loaded" /\ failure = "none"
    /\ Len(dispatched) = Len(TwoTrackOrder)

-----------------------------------------------------------------------------
(* Claims about one call of advance. *)

\* Does a Set Tempo come with the events out[from..].
SetsTempo(out, from) ==
    \E k \in from..Len(out) : out[k].kind = "meta" /\ out[k].value >= 0

\* One call of advance that returned, looked at from before and after.
AdvanceReturned ==
    LET us    == elapsed' - elapsed
        start == microsecondsToNextTick - us
        ticks == division' - division
        len   == microsecondsPerQuarterNote' \div midi_divisions
    IN  /\ microsecondsToNextTick' > 0
        /\ ticks >= 0
        /\ start > 0 => ticks = 0 /\ microsecondsToNextTick' = start
        /\ start <= 0 => ticks > 0 /\ microsecondsToNextTick' <= len
        /\ ~SetsTempo(dispatched', Len(dispatched) + 1) =>
               microsecondsToNextTick' = start + ticks * len

\* C30: a call of advance that returns has subtracted the microseconds given
\* from microsecondsToNextTick and made ticks exactly while the result was
\* at or below 0, each tick adding 1 to the tick counter and
\* microsecondsPerQuarterNote / ticksPerQuarterNote, divided as integers, to
\* microsecondsToNextTick, which is above 0 at the return; the tick counter
\* never goes down, and nothing but a call of advance changes it.
C30_AdvanceTicks ==
    [][ /\ advances' = advances + 1 /\ failure' = "none" => AdvanceReturned
        /\ division' >= division
        /\ division' # division => advances' = advances + 1 ]_vars

\* The first call of advance, given half a second at 4 ticks per quarter
\* note of half a second, has made five ticks: the one due at once and four
\* more until microsecondsToNextTick was above 0.
C30_Witness ==
    /\ advances = 1 /\ elapsed = 500000 /\ failure = "none"
    /\ midi_divisions = 4 /\ microsecondsPerQuarterNote = default_tempo
    /\ division = 5 /\ microsecondsToNextTick = 125000

-----------------------------------------------------------------------------
(* Claims about the tempo and the tick lengths. *)

\* The Set Tempo events dispatched in the ticks up to t.
SetTemposUpTo(t) ==
    SelectSeq(dispatched, LAMBDA e : IsSetTempo(e) /\ e.division <= t)

\* The tempo at the end of tick t: b0 * 65536 + b1 * 256 + b2 of the last Set
\* Tempo dispatched in the ticks up to t, 500000 when there is none.
TempoAtEndOf(t) ==
    LET s == SetTemposUpTo(t)
    IN  IF s = <<>> THEN default_tempo ELSE TempoOf(s[Len(s)])

\* The tick lengths added at the ends of the ticks 0 to n - 1.
RECURSIVE IntervalsAdded(_)
IntervalsAdded(n) ==
    IF n = 0 THEN 0
    ELSE IntervalsAdded(n - 1) + TempoAtEndOf(n - 1) \div midi_divisions

\* C31: the tempo is b0 * 65536 + b1 * 256 + b2 of the last Set Tempo
\* dispatched; the tick length added at the end of every tick is that of the
\* tempo set in the ticks up to it, so that what was added before a Set
\* Tempo stays as it was and what is added from its tick on uses its tempo.
C31_TempoFromItsTick ==
    failure = "none" =>
        /\ microsecondsPerQuarterNote = TempoAtEndOf(division)
        /\ microsecondsToNextTick + elapsed = IntervalsAdded(division)

\* A Set Tempo of 1, 2, 3 was dispatched in tick 1, after a tick of the
\* default tempo, and a tick at the new tempo has been made.
C31_Witness ==
    /\ failure = "none" /\ advances >= 2 /\ division >= 3
    /\ microsecondsPerQuarterNote = 66051
    /\ Len(SetTempos) = 1 /\ SetTempos[1].division = 1
    /\ SetTempos[1].data = << 81, 1, 2, 3 >>

-----------------------------------------------------------------------------
(* Claims about the data bytes of a channel message. *)

\* What an event carries: its division, its channel and its data bytes.
Carried(e) == << e.division, e.channel, e.data >>

\* C32: a status byte from 0x80 to 0xEF is followed by one data byte when
\* its high nibble is 0xC or 0xD and by two otherwise, gives one event with
\* the channel of its low nibble and those data bytes, and the next delta
\* time is read from the byte after them: the channel pressure D0 01, the
\* note on after it and the end of the track are all of division 0, and so
\* are the pitch bend E1 00 01 and the end of the track after it.
C32_DataBytesByStatus ==
    /\ made.payloads = << ChannelPressureTrack >> /\ Finished =>
           /\ loadPc = "loaded" /\ Len(dispatched) = 3
           /\ Carried(dispatched[1]) = << 0, 0, << 1 >> >>
           /\ Carried(dispatched[2]) = << 0, 0, << 60, 64 >> >>
           /\ dispatched[3].division = 0 /\ dispatched[3].kind = "meta"
    /\ made.payloads = << PitchBendTrack >> /\ Finished =>
           /\ loadPc = "loaded" /\ Len(dispatched) = 2
           /\ Carried(dispatched[1]) = << 0, 1, << 0, 1 >> >>
           /\ dispatched[2].division = 0 /\ dispatched[2].kind = "meta"
    /\ made.payloads = << FirstOfTwo, SecondOfTwo >> /\ Finished =>
           /\ loadPc = "loaded" /\ Len(dispatched) = 7
           /\ Carried(dispatched[3]) = << 0, 1, << 60, 64 >> >>

-----------------------------------------------------------------------------
(* Claims about the smoothed volume and pan. *)

\* One step from p to r: towards the target or no move, not past the target,
\* and no move from the target.
StepToward(p, r) ==
    /\ r.target_ = p.target_
    /\ p.value_ <= p.target_ => p.value_ <= r.value_ /\ r.value_ <= p.target_
    /\ p.value_ >= p.target_ => p.target_ <= r.value_ /\ r.value_ <= p.value_

\* C33: volume_ and pan_ have taken one step for every sample rendered,
\* whether or not their targets were set in between; a step moves the value
\* towards the target or leaves it, never past the target, and leaves a
\* value that is at the target where it is; setting a target moves no value.
C33_RampSteps ==
    /\ mix.volume_.calls = mix.samples /\ mix.pan_.calls = mix.samples
    /\ mixOp = "sample" =>
           /\ mix.samples = mixPrev.samples + 1
           /\ StepToward(mixPrev.volume_, mix.volume_)
           /\ StepToward(mixPrev.pan_, mix.pan_)
    /\ mixOp \in { "volume", "pan" } =>
           /\ mix.samples = mixPrev.samples
           /\ mix.volume_.value_ = mixPrev.volume_.value_
           /\ mix.pan_.value_ = mixPrev.pan_.value_

\* The volume is on its way down and the pan on its way up, both between
\* where they were and their targets, after samples were rendered.
C33_Witness ==
    /\ mixOp = "sample" /\ mix.samples >= 2
    /\ mix.volume_.target_ < mix.volume_.value_ /\ mix.volume_.value_ < mixPrev.volume_.value_
    /\ mixPrev.pan_.value_ < mix.pan_.value_ /\ mix.pan_.value_ < mix.pan_.target_

-----------------------------------------------------------------------------
(* Claims about the end of a call of advance. *)

-----------------------------------------------------------------------------
(* Claims about the end of the decoding. *)

RECURSIVE SumPos(_, _)
SumPos(ts, i) == IF i > Len(ts) THEN 0 ELSE ts[i].pos_ + SumPos(ts, i + 1)

\* One round of the loop on a track: a track that is done is left alone, any
\* other has bytes consumed or one division of its delta time counted down.
TrackProgress(t, u) ==
    /\ u.pos_ >= t.pos_
    /\ done(t) => u = t
    /\ ~done(t) => \/ u.pos_ > t.pos_
                   \/ t.count_down_ > 0 /\ u.count_down_ = t.count_down_ - 1

\* C35: no step moves a cursor back or past the end of its buffer; the
\* bytes consumed in a step are at least as many as the events it yields;
\* a round of the loop that ends without an error has consumed bytes of, or
\* counted a division down for, every track that was not done; the loop
\* ends as soon as every track is done; a round of the loop is always there
\* to be taken while some track is not done; and the constructor comes to an
\* end, by returning or by a fatal error.
C35_DecodingEnds ==
    /\ [][ /\ \A i \in 1..Len(tracks) :
                 /\ i <= Len(tracks')
                 /\ tracks'[i].pos_ >= tracks[i].pos_
                 /\ tracks'[i].pos_ <= Len(tracks'[i].data_)
           /\ Len(tracks') = Len(tracks) =>
                 SumPos(tracks', 1) - SumPos(tracks, 1) >= Len(dispatched') - Len(dispatched)
           /\ division' = division + 1 =>
                 \A i \in 1..Len(tracks) : TrackProgress(tracks[i], tracks'[i])
           /\ (loadPc = "divisions" /\ all_done(tracks)) => loadPc' = "loaded"
         ]_vars
    /\ [](loadPc = "divisions" /\ ~all_done(tracks) =>
             division < MaxDivisions /\ failure = "none")
    /\ <>Finished

\* The two tracks with events in divisions 0 and 2 are done after three
\* rounds of the loop, and the constructor has returned.
C35_Witness ==
    /\ made.payloads = << FirstOfTwo, SecondOfTwo >>
    /\ loadPc = "loaded" /\ all_done(tracks) /\ division = 3
    /\ SumPos(tracks, 1) = Len(FirstOfTwo) + Len(SecondOfTwo)

-----------------------------------------------------------------------------
(* Claims about the end of the track buffer. *)

\* The number of events of the script whose bytes are all within the first
\* k bytes of the track.
RECURSIVE WholeEvents(_, _)
WholeEvents(sc, k) ==
    IF sc = <<>> THEN 0
    ELSE LET n == Len(Head(sc).dbytes) + Len(Head(sc).body)
         IN  IF n > k THEN 0 ELSE 1 + WholeEvents(Tail(sc), k - n)

\* The buffer ends inside an event: after its delta time, or inside its
\* delta time, its data bytes or its meta payload.
Incomplete ==
    Len(tracks[1].data_) >
        Len(ScriptBytes(SubSeq(script[1], 1, WholeEvents(script[1], Len(tracks[1].data_)))))

\* The loop of the constructor has ended.
CutEnded == all_done(tracks) \/ failure # "none"

\* C36: the cursor is within 0..Len(data_); a failure is the one of the end
\* of the track and comes with an incomplete event only; when the buffer
\* ends inside an event the loop ends with that failure, and the events
\* dispatched are those that are whole in the buffer.
C36_CursorInBuffer ==
    /\ \A i \in 1..Len(tracks) :
          tracks[i].pos_ >= 0 /\ tracks[i].pos_ <= Len(tracks[i].data_)
    /\ Len(dispatched) <= WholeEvents(script[1], Len(tracks[1].data_))
    /\ failure # "none" => Incomplete /\ failure = EndOfTrack
    /\ (Incomplete /\ CutEnded) =>
          /\ failure = EndOfTrack
          /\ Len(dispatched) = WholeEvents(script[1], Len(tracks[1].data_))

-----------------------------------------------------------------------------
(* Claims about note_off for a key no voice has. *)

\* C37: no assert of the channel fails, and a note_off for a key that no
\* voice is bound to leaves every voice as it was.
C37_UnboundNoteOff ==
    /\ [](ctlFailure = "none")
    /\ [][ \A key \in Keys :
             (find_key(voices, key) = 0 /\ ChannelNoteOff(key)) => voices' = voices ]_vars

-----------------------------------------------------------------------------
(* Claims about the range of the envelope's level. *)

\* C38: the level of the envelope is within min_level..peak_level, so the
\* assert of set_multiplier and the one at the end of operator() hold; it
\* is sustain_level in the sustain and min_level when the envelope is off.
C38_LevelInRange ==
    /\ env.level >= min_level /\ env.level <= peak_level
    /\ set_multiplier_ok(env)
    /\ env.state = "state_sustain" => env.level = sustain_level
    /\ env.state = "state_off" => env.level = min_level
    /\ min_level < sustain_level /\ sustain_level < peak_level

\* A sample step of the attack that takes a level between sustain_level and
\* peak_level to the peak, where it is held, and goes on to the decay.
C38_Witness ==
    /\ envOp = "step" /\ envPrev.state = "state_attack"
    /\ env.state = "state_decay" /\ env.level = peak_level
    /\ envPrev.level > sustain_level /\ envPrev.level < peak_level
    /\ envSteps >= 4

-----------------------------------------------------------------------------
(* Claims about the keys of the messages. *)

\* The key byte of the one message of the track.
MidiKey == script[1][1].body[2]

\* C39: the message is decoded without a failure, whatever its key; once it
\* is decoded the visitor has had one call, with the channel of the status
\* and the piano key MidiKey - 20, which is a key of the piano (1..88).
C39_EveryKeyDelivered ==
    /\ failure = "none"
    /\ all_done(tracks) =>
          /\ Len(dispatched) = 1
          /\ dispatched[1].kind = CASE script[1][1].status \div 16 = 8 -> "note_off"
                                     [] script[1][1].status \div 16 = 9 -> "note_on"
                                     [] OTHER -> "polyphonic_key_pressure"
          /\ dispatched[1].channel = script[1][1].status % 16
          /\ dispatched[1].key = MidiKey - 20
          /\ dispatched[1].key >= 1 /\ dispatched[1].key <= 88

-----------------------------------------------------------------------------
(* Claims about the two buffers of the wave device. *)

\* The buffers the device holds.
Queued == { queued[i] : i \in 1..Len(queued) }

\* C40: the count of free buffers is within 0..2 and no assert of the
\* device fails; callback_ is run by the audio thread alone, one call at a
\* time; and the buffer the thread holds, which it hands to callback_, is
\* not one the device holds.
C40_DoubleBuffer ==
    /\ num_buffers_to_play_ >= 0 /\ num_buffers_to_play_ <= 2
    /\ waveFailure = "none"
    /\ callers \subseteq { "audio" }
    /\ "audio" \in callers <=> audioPc = "callback"
    /\ audioPc \in { "taken", "callback", "write" } =>
          buffer \in { 0, 1 } /\ buffer \notin Queued

=============================================================================
